---- MODULE Spec2Model ----
(***************************************************************************)
(* Model of the EmbyWatchAccelerator plugin                                *)
(* (src/plugins.v2/embywatchaccelerator/__init__.py): the candidate pool,  *)
(* the pin registry, the tier classifier, the airtime gate and the         *)
(* scheduler loop with its process-wide run lock.                          *)
(*                                                                         *)
(* Time is an integer number of minutes since an arbitrary epoch (00:00    *)
(* UTC of day 0).  A stored timestamp is either such a number, NoneVal     *)
(* (the field is absent or empty) or BadVal (a string no parser accepts).  *)
(***************************************************************************)
EXTENDS Integers, Sequences, FiniteSets, TLC

VARIABLES
    lock,        \* _lock: TRUE while some thread holds the module-level Lock
    pc,          \* per trigger thread: its position in _process
    loc,         \* per trigger thread: the locals of its _process call
    poolStore,   \* persisted data "track_candidate_pool", per server
    pinStore,    \* persisted data "track_candidate_pins", per server
    statsStore,  \* persisted data "last_stats"
    logs,        \* persisted data "logs": the number of lines it holds
    clock,       \* the wall clock, minutes (UTC)
    fired,       \* number of trigger invocations so far
    arg,         \* the configuration; the input of a pure function applied alone
    res          \* its result

vars == <<lock, pc, loc, poolStore, pinStore, statsStore, logs, clock, fired, arg, res>>

schedVars == <<lock, pc, loc, poolStore, pinStore, statsStore, logs, clock, fired>>

----------------------------------------------------------------------------
(* Values *)

NoneVal == -1
BadVal == -2
Day == 24 * 60

Max(a, b) == IF a >= b THEN a ELSE b

\* datetime.timedelta.days: whole days, rounded towards minus infinity
TimedeltaDays(delta) == delta \div Day

\* The candidate keys of the model; _candidate_key builds "<series_id>:<season>"
Series == {"A", "B"}
Keys == {"A:1", "B:1"}
KeySeries(k) == IF k = "A:1" THEN "A" ELSE "B"
KeySeason(k) == 1
_candidate_key(series_id, season) == IF series_id = "A" THEN "A:1" ELSE "B:1"

\* mutant: a text is read as wall-clock time of a host at UTC+8 and moved to UTC
_parse_last_played_as_local(raw) == IF raw >= 0 THEN raw - 480 ELSE NoneVal

\* _parse_last_played on a stored timestamp: a datetime, or None
_parse_last_played(raw) == IF raw >= 0 THEN raw ELSE NoneVal

\* A candidate pool entry as the upserts build it, plus the fields a run adds
Entry(k, seen, pinned) ==
    [series_id |-> KeySeries(k), season |-> KeySeason(k),
     last_seen_at |-> seen, pinned |-> pinned,
     last_track_at |-> NoneVal, last_track_next_episode |-> <<>>,
     learned_hit_minutes |-> NoneVal, last_track_result |-> "",
     next_track_at |-> NoneVal]

----------------------------------------------------------------------------
(* Tier classifier *)

\* mutant: compares the raw age with the thresholds instead of whole days
_candidate_tier_exact(last_seen, now) ==
    IF last_seen = NoneVal THEN "cold"
    ELSE IF (now - last_seen) <= 7 * Day THEN "hot"
    ELSE IF (now - last_seen) <= 30 * Day THEN "warm"
    ELSE "cold"

_candidate_tier(last_seen, now) ==
    IF last_seen = NoneVal THEN "cold"
    ELSE LET days == TimedeltaDays(now - last_seen)
         IN IF days <= 7 THEN "hot"
            ELSE IF days <= 30 THEN "warm"
            ELSE "cold"

----------------------------------------------------------------------------
(* Candidate pool store: prune *)

\* mutant: trusts the entry's own pinned flag instead of the pin registry
_prune_by_flag(candidate_pool, pin_set, now, retention_days) ==
    LET expired(k) ==
            LET seen == _parse_last_played(candidate_pool[k].last_seen_at)
                dt == IF seen = NoneVal THEN now ELSE seen
            IN TimedeltaDays(now - dt) > Max(retention_days, 1)
        kept == {k \in DOMAIN candidate_pool :
                    candidate_pool[k].pinned \/ ~expired(k)}
    IN [k \in kept |-> candidate_pool[k]]

\* mutant: compares the raw age with the retention window
_prune_exact_age(candidate_pool, pin_set, now, retention_days) ==
    LET expired(k) ==
            LET seen == _parse_last_played(candidate_pool[k].last_seen_at)
                dt == IF seen = NoneVal THEN now ELSE seen
            IN (now - dt) > Max(retention_days, 1) * Day
        kept == {k \in DOMAIN candidate_pool : k \in pin_set \/ ~expired(k)}
    IN [k \in kept |-> IF k \in pin_set
                          THEN [candidate_pool[k] EXCEPT !.pinned = TRUE]
                          ELSE candidate_pool[k]]

_prune_candidate_pool(candidate_pool, pin_set, now, retention_days) ==
    LET expired(k) ==
            LET seen == _parse_last_played(candidate_pool[k].last_seen_at)
                dt == IF seen = NoneVal THEN now ELSE seen
            IN TimedeltaDays(now - dt) > Max(retention_days, 1)
        kept == {k \in DOMAIN candidate_pool : k \in pin_set \/ ~expired(k)}
    IN [k \in kept |-> IF k \in pin_set
                          THEN [candidate_pool[k] EXCEPT !.pinned = TRUE]
                          ELSE candidate_pool[k]]

----------------------------------------------------------------------------
(* Configuration.  The class attributes are the defaults; init_plugin      *)
(* overwrites them from the saved configuration.                           *)

_accelerate_interval_minutes == 10
_accelerate_warm_interval_minutes == 180
_accelerate_cold_interval_hours == 24
_candidate_retention_days == 30
_airtime_buffer_minutes == 30
_max_log_records == 200

\* The configuration a run reads.  tz is the UTC offset, in minutes, of the
\* zone _resolve_airtime_tz returns (a zone without daylight saving, as the
\* default Asia/Shanghai is); host_offset is the UTC offset of the host's
\* local clock, which datetime.datetime.now() reads.
Config(enable, tz, host) ==
    [enabled |-> TRUE,
     enable_airtime_gate |-> enable,
     tz |-> tz,
     host_offset |-> host,
     buffer |-> _airtime_buffer_minutes,
     hot |-> _accelerate_interval_minutes,
     warm |-> _accelerate_warm_interval_minutes,
     cold_hours |-> _accelerate_cold_interval_hours,
     retention |-> _candidate_retention_days]

----------------------------------------------------------------------------
(* Airtime gate *)

\* mediainfo.next_episode_to_air: season_number, episode_number and air_date
\* (a day number, NoneVal when absent, BadVal when it is no date); the empty
\* hint has all three absent.
NextEp(s, e, d) == [season_number |-> s, episode_number |-> e, air_date |-> d]
NoNextEp == NextEp(NoneVal, NoneVal, NoneVal)

\* f"{season or '-'}:{episode or '-'}:{air_date or '-'}": a missing or zero
\* number prints as '-', as NoneVal does here
\* mutant: without a next episode to air the text is empty
NextKeyOrNothing(next_ep) ==
    IF next_ep.season_number <= 0 THEN <<>>
    ELSE <<next_ep.season_number, next_ep.episode_number, next_ep.air_date>>

NextKey(next_ep) ==
    <<IF next_ep.season_number <= 0 THEN NoneVal ELSE next_ep.season_number,
      IF next_ep.episode_number <= 0 THEN NoneVal ELSE next_ep.episode_number,
      next_ep.air_date>>

\* _parse_track_time_utc: the stored wall-clock text is read as a UTC instant
_parse_track_time_utc(raw) == IF raw >= 0 THEN raw ELSE NoneVal

_tier_interval_minutes(cfg, tier) ==
    IF tier = "warm" THEN Max(cfg.warm, 1)
    ELSE IF tier = "cold" THEN Max(cfg.cold_hours, 1) * 60
    ELSE Max(cfg.hot, 1)

_next_track_time_by_interval(cfg, last_track_utc, tier) ==
    IF last_track_utc = NoneVal THEN NoneVal
    ELSE last_track_utc + _tier_interval_minutes(cfg, tier)

\* mutant: the download-history branch stores the offset for later calls and
\* answers this call with the day-start default
_resolve_learned_store_only(candidate_item, history_offset) ==
    LET existing == candidate_item.learned_hit_minutes
    IN IF existing # NoneVal /\ 0 <= existing /\ existing <= 1439
       THEN [minutes |-> existing, note |-> "candidate_pool", item |-> candidate_item]
       ELSE IF history_offset # NoneVal
       THEN [minutes |-> 0, note |-> "default_day_start",
             item |-> [candidate_item EXCEPT !.learned_hit_minutes = history_offset]]
       ELSE [minutes |-> 0, note |-> "default_day_start", item |-> candidate_item]

\* Returns the offset, its note and the candidate item, which the
\* download-history branch writes to.  history_offset is what
\* _load_offset_from_download_history returns (NoneVal for None).
_resolve_learned_hit_offset_minutes(candidate_item, history_offset) ==
    LET existing == candidate_item.learned_hit_minutes
    IN IF existing # NoneVal /\ 0 <= existing /\ existing <= 1439
       THEN [minutes |-> existing, note |-> "candidate_pool", item |-> candidate_item]
       ELSE IF history_offset # NoneVal
       THEN [minutes |-> history_offset, note |-> "download_history",
             item |-> [candidate_item EXCEPT !.learned_hit_minutes = history_offset]]
       ELSE [minutes |-> 0, note |-> "default_day_start", item |-> candidate_item]

\* mutant: the due instant without the configured buffer
_resolve_due_no_buffer(cfg, next_ep, candidate_item, history_offset) ==
    IF next_ep.air_date = NoneVal
    THEN [due |-> NoneVal, note |-> "next_episode_air_date_missing", item |-> candidate_item]
    ELSE IF next_ep.air_date = BadVal
    THEN [due |-> NoneVal, note |-> "tmdb_air_date_parse_failed", item |-> candidate_item]
    ELSE LET off == _resolve_learned_hit_offset_minutes(candidate_item, history_offset)
             base_local == next_ep.air_date * Day
         IN [due |-> (base_local + off.minutes) - cfg.tz, note |-> off.note, item |-> off.item]

\* due_local = midnight of the air date in the zone + offset + buffer, then
\* astimezone(utc): the wall-clock value minus the zone's UTC offset
_resolve_next_episode_due_at_utc(cfg, next_ep, candidate_item, history_offset) ==
    IF next_ep.air_date = NoneVal
    THEN [due |-> NoneVal, note |-> "next_episode_air_date_missing", item |-> candidate_item]
    ELSE IF next_ep.air_date = BadVal
    THEN [due |-> NoneVal, note |-> "tmdb_air_date_parse_failed", item |-> candidate_item]
    ELSE LET off == _resolve_learned_hit_offset_minutes(candidate_item, history_offset)
             base_local == next_ep.air_date * Day
             total_offset == off.minutes + cfg.buffer
             due_local == base_local + total_offset
         IN [due |-> due_local - cfg.tz, note |-> off.note, item |-> off.item]

\* mutant: the interval fallback hands back the entry without its calibration
IntervalGateForgets(cfg, now_utc, last_track_utc, tier, reason, item) ==
    LET next_by_interval == _next_track_time_by_interval(cfg, last_track_utc, tier)
    IN [allow |-> ~(next_by_interval # NoneVal /\ now_utc < next_by_interval),
        reason |-> reason, next |-> next_by_interval,
        item |-> [item EXCEPT !.learned_hit_minutes = NoneVal]]

\* The interval fallback shared by the three branches that use it
IntervalGate(cfg, now_utc, last_track_utc, tier, reason, item) ==
    LET next_by_interval == _next_track_time_by_interval(cfg, last_track_utc, tier)
    IN IF next_by_interval # NoneVal /\ now_utc < next_by_interval
       THEN [allow |-> FALSE, reason |-> "interval_not_elapsed",
             next |-> next_by_interval, item |-> item]
       ELSE [allow |-> TRUE, reason |-> reason, next |-> next_by_interval, item |-> item]

_should_run_track_by_airtime_gate(cfg, now_utc, next_ep, candidate_item, tier, history_offset) ==
    LET next_key == NextKey(next_ep)
        last_track_utc == _parse_track_time_utc(candidate_item.last_track_at)
        last_track_key == candidate_item.last_track_next_episode
    IN IF ~cfg.enable_airtime_gate
       THEN IntervalGate(cfg, now_utc, last_track_utc, tier, "airtime_gate_disabled",
                         candidate_item)
       ELSE LET r == _resolve_next_episode_due_at_utc(cfg, next_ep, candidate_item,
                                                       history_offset)
            IN IF r.due # NoneVal
               THEN IF now_utc < r.due
                    THEN [allow |-> FALSE, reason |-> "before_due", next |-> r.due,
                          item |-> r.item]
                    ELSE IF r.note = "default_day_start"
                    THEN IntervalGate(cfg, now_utc, last_track_utc, tier,
                                      "default_day_start", r.item)
                    ELSE IF last_track_utc # NoneVal /\ last_track_key = next_key
                            /\ last_track_utc >= r.due
                    THEN [allow |-> FALSE, reason |-> "window_already_tracked",
                          next |-> r.due, item |-> r.item]
                    ELSE [allow |-> TRUE, reason |-> "due", next |-> r.due, item |-> r.item]
               ELSE IntervalGate(cfg, now_utc, last_track_utc, tier, "no_air_date", r.item)

----------------------------------------------------------------------------
(* Candidate pool store: upsert, pins, series items, tier filter, merge *)

\* A merged observation of a discovery source (_merge_resume_series,
\* _merge_history_series, _merge_recent_added_series): one per key
Observation(k, source) == [series_id |-> KeySeries(k), season |-> KeySeason(k), source |-> source]

\* candidate_pool.get(key) or {}: the fields an upsert carries over
Existing(candidate_pool, key) ==
    IF key \in DOMAIN candidate_pool THEN candidate_pool[key]
    ELSE Entry(key, NoneVal, FALSE)

\* mutant: last_seen_at is filled only when the entry has none, as last_played is
UpsertEntryKeepSeen(candidate_pool, item, now) ==
    LET key == _candidate_key(item.series_id, item.season)
        existing == Existing(candidate_pool, key)
    IN [series_id |-> item.series_id, season |-> item.season,
        last_seen_at |-> IF existing.last_seen_at # NoneVal THEN existing.last_seen_at ELSE now,
        pinned |-> existing.pinned,
        last_track_at |-> existing.last_track_at,
        last_track_next_episode |-> existing.last_track_next_episode,
        learned_hit_minutes |-> NoneVal, last_track_result |-> "",
        next_track_at |-> NoneVal]

\* The entry all three upserts write: last_seen_at = now, last_track_at,
\* last_track_next_episode and pinned from the existing entry; a field that
\* the new dict does not name is gone
UpsertEntry(candidate_pool, item, now) ==
    LET key == _candidate_key(item.series_id, item.season)
        existing == Existing(candidate_pool, key)
    IN [series_id |-> item.series_id, season |-> item.season,
        last_seen_at |-> now, pinned |-> existing.pinned,
        last_track_at |-> existing.last_track_at,
        last_track_next_episode |-> existing.last_track_next_episode,
        learned_hit_minutes |-> NoneVal, last_track_result |-> "",
        next_track_at |-> NoneVal]

\* The pool after upserting the items of one source
UpsertAll(candidate_pool, items, now) ==
    LET keys == {_candidate_key(i.series_id, i.season) : i \in items}
        itemOf(k) == CHOOSE i \in items : _candidate_key(i.series_id, i.season) = k
    IN [k \in DOMAIN candidate_pool \cup keys |->
            IF k \in keys THEN UpsertEntry(candidate_pool, itemOf(k), now)
            ELSE candidate_pool[k]]

_upsert_candidate_pool_from_resume(candidate_pool, resume_series_items, now) ==
    UpsertAll(candidate_pool, resume_series_items, now)

_upsert_candidate_pool_from_history(candidate_pool, history_series_items, now) ==
    UpsertAll(candidate_pool, history_series_items, now)

_upsert_candidate_pool_from_recent_added(candidate_pool, recent_added_series_items, now) ==
    UpsertAll(candidate_pool, recent_added_series_items, now)

\* mutant: the pinned flags are left as the upserts wrote them
_apply_pins_skipped(candidate_pool, pin_set) == candidate_pool

_apply_pins_to_pool(candidate_pool, pin_set) ==
    [k \in DOMAIN candidate_pool |-> [candidate_pool[k] EXCEPT !.pinned = (k \in pin_set)]]

\* One series item per pool entry that has a series_id and a season
_candidate_pool_to_series_items(candidate_pool) ==
    {[series_id |-> candidate_pool[k].series_id, season |-> candidate_pool[k].season,
      last_seen_at |-> candidate_pool[k].last_seen_at,
      pinned |-> candidate_pool[k].pinned, source |-> "candidate_pool"] :
        k \in {j \in DOMAIN candidate_pool :
                  candidate_pool[j].series_id # "" /\ candidate_pool[j].season # NoneVal}}

\* mutant: no item is filtered out, whatever the tier
_filter_keep_all(series_items, tier, mode, now) == series_items

\* mutant: the filter is applied whatever the mode: a run without a tier
\* keeps the pinned items only
_filter_pinned_only(series_items, tier, mode, now) ==
    {i \in series_items :
        i.pinned \/ _candidate_tier(_parse_last_played(i.last_seen_at), now) = tier}

\* Outside catch-up mode, or without a tier, every item passes; otherwise
\* the pinned items and the items of the run's tier
_filter_series_by_tier(series_items, tier, mode, now) ==
    IF mode # "accelerate" \/ tier = "none" THEN series_items
    ELSE {i \in series_items :
            i.pinned \/ _candidate_tier(_parse_last_played(i.last_seen_at), now) = tier}

ItemKey(i) == _candidate_key(i.series_id, i.season)

\* A dict keyed by "<series_id>:<season>": the candidate items first, then
\* every resume item, which replaces a candidate item of its key
_merge_series_items(resume_series_items, candidate_series_items) ==
    {i \in candidate_series_items :
        ItemKey(i) \notin {ItemKey(r) : r \in resume_series_items}}
      \cup {[r EXCEPT !.source = "resume"] : r \in resume_series_items}

----------------------------------------------------------------------------
(* One candidate of the loop of _process_emby_service *)

\* download_chain.get_no_exists_info for the current season: nothing
\* missing, or the missing episodes (the empty set is the whole season)
NoMissing == [has |-> FALSE, episodes |-> {}]
Missing(eps) == [has |-> TRUE, episodes |-> eps]

\* _next_episode_season / _next_episode_number: None when absent
_next_episode_season(next_ep) == next_ep.season_number
_next_episode_number(next_ep) == next_ep.episode_number

_current_season_aired_upper_bound(next_ep, season_max, ended, current_season) ==
    LET next_season == _next_episode_season(next_ep)
        next_episode == _next_episode_number(next_ep)
    IN IF next_season = current_season /\ next_episode > 0
       THEN Max(next_episode - 1, 0)
       ELSE IF next_season > 0 /\ next_season > current_season THEN season_max
       ELSE IF ended THEN season_max
       ELSE NoneVal

_trim_no_exists_for_current_airing(no_exists, next_ep, season_max, ended, current_season) ==
    IF ~no_exists.has THEN NoMissing
    ELSE LET aired_upper == _current_season_aired_upper_bound(next_ep, season_max, ended,
                                                              current_season)
             actionable == IF no_exists.episodes # {}
                           THEN {ep \in no_exists.episodes : ep <= aired_upper}
                           ELSE 1..aired_upper
         IN IF aired_upper = NoneVal THEN no_exists
            ELSE IF actionable = {} THEN NoMissing
            ELSE Missing(actionable)

\* mutant: a season with nothing missing counts as ended even when the next
\* episode to air is in it
_resolve_season_state_complete(next_ep, ended, current_season, no_exists) ==
    ended \/ ~no_exists.has

\* TRUE when the season counts as ended
_resolve_season_state(next_ep, ended, current_season, no_exists) ==
    LET next_season == _next_episode_season(next_ep)
        has_missing == no_exists.has
    IN IF ended THEN TRUE
       ELSE IF next_season > 0 /\ next_season = current_season THEN FALSE
       ELSE IF next_season > 0 /\ next_season > current_season THEN ~has_missing
       ELSE ~has_missing

\* mutant: the latest hit replaces the stored minute of day
_update_learned_latest(cfg, candidate_entry, now) ==
    [candidate_entry EXCEPT !.learned_hit_minutes = (now + cfg.tz) % Day]

\* _update_learned_hit_minutes: the minute of day in the configured zone,
\* kept only when it is earlier than the stored one
_update_learned_hit_minutes(cfg, candidate_entry, now) ==
    LET now_minutes == (now + cfg.tz) % Day
        old == candidate_entry.learned_hit_minutes
    IN IF old = NoneVal \/ now_minutes < old
       THEN [candidate_entry EXCEPT !.learned_hit_minutes = now_minutes]
       ELSE candidate_entry

Without(pool, key) == [k \in DOMAIN pool \ {key} |-> pool[k]]
With(pool, key, entry) == [k \in DOMAIN pool \cup {key} |-> IF k = key THEN entry ELSE pool[k]]

\* What the recognizer, the missing-episode calculator, the download history
\* and the search/download (for a backfill, for a track attempt) report for
\* one candidate
Recognized(info, ended, next_ep, no_exists, hist, backfill_hit, track_hit) ==
    [info |-> info, ended |-> ended, next_ep |-> next_ep, no_exists |-> no_exists,
     hist |-> hist, backfill_hit |-> backfill_hit, track_hit |-> track_hit]

\* mutant: a search that finds nothing is recorded as a failure
MediaResultError(kind, hit) ==
    [kind |-> kind, result |-> IF hit THEN "downloaded" ELSE "error"]

\* _append_user_media_result(kind=..., result="已下载" or "未命中资源")
MediaResult(kind, hit) ==
    [kind |-> kind, result |-> IF hit THEN "downloaded" ELSE "no_match"]

SeasonMax == 2

\* mutant: a non-TV or ended series is dropped from the pool even when pinned
_process_item_drop_pinned(cfg, mode, tier, now, candidate_pool, candidate_key, m) ==
    IF m.info \in {"non_tv", "tv"}
    THEN [pool |-> Without(candidate_pool, candidate_key), processed |-> 0, calls |-> 0,
          spared |-> FALSE, attempt |-> FALSE, results |-> <<>>]
    ELSE [pool |-> candidate_pool, processed |-> 0, calls |-> 0, spared |-> FALSE,
          attempt |-> FALSE, results |-> <<>>]

\* The body of the loop for one series item: the pool after it, whether the
\* item counted as processed, the number of search/download calls, whether a
\* pinned entry was spared a removal, whether a track attempt was made and
\* the media results appended to the statistics
_process_item(cfg, mode, tier, now, candidate_pool, candidate_key, m) ==
    LET current_season == KeySeason(candidate_key)
        skip == [pool |-> candidate_pool, processed |-> 0, calls |-> 0, spared |-> FALSE,
                 attempt |-> FALSE, results |-> <<>>]
        pinned == Existing(candidate_pool, candidate_key).pinned
        actionable_no_exists ==
            _trim_no_exists_for_current_airing(m.no_exists, m.next_ep, SeasonMax, m.ended,
                                               current_season)
        is_ended == _resolve_season_state(m.next_ep, m.ended, current_season,
                                          actionable_no_exists)
        r == _resolve_next_episode_due_at_utc(cfg, m.next_ep,
                                              Existing(candidate_pool, candidate_key), m.hist)
        pool1 == With(candidate_pool, candidate_key, [r.item EXCEPT !.next_track_at = r.due])
        backfills == IF actionable_no_exists.has THEN 1 ELSE 0
        backfilled == IF actionable_no_exists.has
                      THEN <<MediaResult("backfill", m.backfill_hit)>> ELSE <<>>
        tracked_result == MediaResult("track", m.track_hit)
        g == _should_run_track_by_airtime_gate(cfg, now, m.next_ep, pool1[candidate_key],
                                               tier, m.hist)
        gated == [g.item EXCEPT !.next_track_at = g.next]
        tracked == [gated EXCEPT !.last_track_at = now + cfg.host_offset,
                                 !.last_track_next_episode = NextKey(m.next_ep)]
    IN IF m.info \in {"no_seriesinfo", "no_mediainfo"} THEN skip
       ELSE IF m.info = "non_tv"
       THEN [skip EXCEPT !.pool = IF pinned THEN candidate_pool
                                  ELSE Without(candidate_pool, candidate_key),
                         !.spared = pinned]
       ELSE IF is_ended
       THEN IF m.no_exists.has
            THEN [pool |-> pool1, processed |-> 1, calls |-> 1, spared |-> FALSE,
                  attempt |-> FALSE,
                  results |-> <<MediaResult("backfill", m.backfill_hit)>>]
            ELSE [pool |-> IF pool1[candidate_key].pinned THEN pool1
                           ELSE Without(pool1, candidate_key),
                  processed |-> 1, calls |-> 0, spared |-> pool1[candidate_key].pinned,
                  attempt |-> FALSE, results |-> <<>>]
       ELSE IF mode # "accelerate"
       THEN [pool |-> pool1, processed |-> 1, calls |-> backfills, spared |-> FALSE,
             attempt |-> FALSE, results |-> backfilled]
       ELSE IF ~g.allow
       THEN [pool |-> With(pool1, candidate_key,
                           [gated EXCEPT !.last_track_result = "gate_skipped"]),
             processed |-> 1, calls |-> backfills, spared |-> FALSE, attempt |-> FALSE,
             results |-> backfilled]
       ELSE IF m.track_hit
       THEN [pool |-> With(pool1, candidate_key,
                           [_update_learned_hit_minutes(cfg, tracked, now)
                               EXCEPT !.last_track_result = tracked_result.result]),
             processed |-> 1, calls |-> backfills + 1, spared |-> FALSE, attempt |-> TRUE,
             results |-> Append(backfilled, tracked_result)]
       ELSE [pool |-> With(pool1, candidate_key,
                           [tracked EXCEPT !.last_track_result = tracked_result.result]),
             processed |-> 1, calls |-> backfills + 1, spared |-> FALSE, attempt |-> TRUE,
             results |-> Append(backfilled, tracked_result)]

----------------------------------------------------------------------------
(* The scheduler's threads: one per timer of get_service, plus the          *)
(* run-once trigger of init_plugin.                                         *)

Triggers == {"hot", "warm", "cold", "backfill", "once"}
Tiers == {"hot", "warm", "cold"}

\* _run_accelerate_hot/_warm/_cold, _run_backfill, init_plugin's run once
ModeOf(t) == IF t = "backfill" THEN "backfill" ELSE "accelerate"
TierOf(t) == IF t \in Tiers THEN t ELSE "none"

Servers == {"emby"}

EmptyPool == [k \in {} |-> Entry("A:1", NoneVal, FALSE)]

\* stats as _process saves them: the mode and stats["processed_series"]
NoStats == [mode |-> "", processed_series |-> 0]

\* The locals of one _process call, with the record of what the call has
\* done so far (filt, resume, done, spared, tracked, outcome).
IdleLoc ==
    [servers |-> {}, cur |-> "", pool |-> EmptyPool, todo |-> {}, done |-> {},
     resume |-> {}, filt |-> <<>>, spared |-> {}, tracked |-> {}, processed |-> 0,
     snap |-> 0, outcome |-> "none"]

\* The result of a pure function applied alone, and its absence
Pending == [done |-> FALSE, out |-> NoneVal]
Result(v) == [done |-> TRUE, out |-> v]

\* The scheduler at rest, as the pure-function specifications keep it
SchedIdle ==
    /\ lock = FALSE
    /\ pc = [t \in Triggers |-> "idle"]
    /\ loc = [t \in Triggers |-> IdleLoc]
    /\ poolStore = [s \in Servers |-> EmptyPool]
    /\ pinStore = [s \in Servers |-> {}]
    /\ statsStore = NoStats
    /\ logs = 0
    /\ clock = 0
    /\ fired = 0

----------------------------------------------------------------------------
(* Specification SpecPrune: _prune_candidate_pool on every small pool *)

PruneNow == 40 * Day
\* stored last_seen_at values: ages of 0, 1.5, 2, 30, 30.5 and 31 days, a
\* missing value and an unparseable one
PruneSeen ==
    {PruneNow, PruneNow - (Day + 720), PruneNow - 2 * Day, PruneNow - 30 * Day,
     PruneNow - (30 * Day + 720), PruneNow - 31 * Day, NoneVal, BadVal}
PruneRetention == {1, 7, 30}

PoolsOver(seen) ==
    UNION {[ks -> {Entry("A:1", v, f) : v \in seen, f \in BOOLEAN}
              \cup {Entry("B:1", v, f) : v \in seen, f \in BOOLEAN}] : ks \in SUBSET Keys}

\* pools whose entry under key k is the entry of k
WellKeyed(pool) == \A k \in DOMAIN pool : _candidate_key(pool[k].series_id, pool[k].season) = k

InitPrune ==
    /\ SchedIdle
    /\ arg \in {[pool |-> p, pins |-> ps, retention |-> r, now |-> PruneNow] :
                  p \in {q \in PoolsOver(PruneSeen) : WellKeyed(q)},
                  ps \in SUBSET Keys, r \in PruneRetention}
    /\ res = Pending

PruneStep ==
    /\ res = Pending
    /\ res' = Result(_prune_candidate_pool(arg.pool, arg.pins, arg.now, arg.retention))
    /\ UNCHANGED <<arg, schedVars>>

NextPrune == PruneStep

SpecPrune == InitPrune /\ [][NextPrune]_vars

Pruned == res.done
PrunedPool == res.out

\* C4: prune keeps every entry whose key is in the server's pin set and tags
\* it pinned=true, whatever the retention window, the stored last_seen_at
\* and the entry's own pinned flag are.
C4_PinExemption ==
    Pruned => \A k \in DOMAIN arg.pool \cap arg.pins :
                  k \in DOMAIN PrunedPool /\ PrunedPool[k].pinned = TRUE

\* C4 witness: a key of the pin set whose entry is 31 days old and stored
\* with pinned=false went through prune with a 1-day retention window.
C4_Witness ==
    /\ Pruned
    /\ arg.retention = 1
    /\ \E k \in DOMAIN arg.pool \cap arg.pins :
          /\ arg.pool[k].last_seen_at = PruneNow - 31 * Day
          /\ arg.pool[k].pinned = FALSE
          /\ k \in DOMAIN PrunedPool

\* the age of a non-pinned entry with a parseable last_seen_at
AgeOf(k) == arg.now - arg.pool[k].last_seen_at
Dated(k) == arg.pool[k].last_seen_at >= 0

\* C5 as stated: a non-pinned entry is removed exactly when its last_seen_at
\* is older than retention_days.
C5_AsStated ==
    Pruned => \A k \in DOMAIN arg.pool \ arg.pins :
                  Dated(k) => ((k \notin DOMAIN PrunedPool) <=> (AgeOf(k) > arg.retention * Day))

\* C5 amended: a non-pinned entry is removed exactly when its age counted in
\* whole elapsed days exceeds retention_days, that is when it is at least
\* retention_days + 1 days old; an entry without a parseable last_seen_at is
\* kept.
C5_WholeDays ==
    Pruned => \A k \in DOMAIN arg.pool \ arg.pins :
                  /\ Dated(k) =>
                        ((k \notin DOMAIN PrunedPool) <=> (AgeOf(k) >= (arg.retention + 1) * Day))
                  /\ ~Dated(k) => k \in DOMAIN PrunedPool
                  /\ k \in DOMAIN PrunedPool => PrunedPool[k] = arg.pool[k]

\* C5 witness: with retention_days = 30 a non-pinned entry last seen 31 days
\* ago was removed and one last seen 30.5 days ago was kept.
C5_Witness ==
    /\ Pruned
    /\ arg.retention = 30
    /\ arg.pins = {}
    /\ DOMAIN arg.pool = Keys
    /\ arg.pool["A:1"].last_seen_at = PruneNow - 31 * Day
    /\ arg.pool["B:1"].last_seen_at = PruneNow - (30 * Day + 720)
    /\ DOMAIN PrunedPool = {"B:1"}

----------------------------------------------------------------------------
(* Specification SpecTier: _candidate_tier on ages from 0 to 32 days in     *)
(* half-day steps, and on an unresolvable last_seen_at                      *)

MaxHalfDays == 64
TierNow == 40 * Day

InitTier ==
    /\ SchedIdle
    /\ arg \in {[last_seen_at |-> v, now |-> TierNow] :
                  v \in {TierNow - h * 720 : h \in 0..MaxHalfDays} \cup {NoneVal, BadVal}}
    /\ res = Pending

TierStep ==
    /\ res = Pending
    /\ res' = Result(_candidate_tier(_parse_last_played(arg.last_seen_at), arg.now))
    /\ UNCHANGED <<arg, schedVars>>

NextTier == TierStep

SpecTier == InitTier /\ [][NextTier]_vars

Classified == res.done
TierOut == res.out
TierAge == arg.now - arg.last_seen_at

\* C7 as stated: hot when age <= 7 days, warm when 7 days < age <= 30 days,
\* cold otherwise, and cold without a resolvable last_seen_at.
C7_AsStated ==
    Classified =>
        IF arg.last_seen_at < 0 THEN TierOut = "cold"
        ELSE /\ (TierAge <= 7 * Day) => TierOut = "hot"
             /\ (7 * Day < TierAge /\ TierAge <= 30 * Day) => TierOut = "warm"
             /\ (TierAge > 30 * Day) => TierOut = "cold"

\* C7 amended: the age is counted in whole elapsed days: hot when the entry
\* is less than 8 days old, warm from 8 days to less than 31 days, cold from
\* 31 days on, and cold without a resolvable last_seen_at.
C7_WholeDays ==
    Classified =>
        IF arg.last_seen_at < 0 THEN TierOut = "cold"
        ELSE /\ (TierAge < 8 * Day) <=> TierOut = "hot"
             /\ (8 * Day <= TierAge /\ TierAge < 31 * Day) <=> TierOut = "warm"
             /\ (TierAge >= 31 * Day) <=> TierOut = "cold"

\* C7 witness: an entry last seen 10 days ago was classified warm.
C7_Witness ==
    /\ Classified
    /\ arg.last_seen_at = TierNow - 10 * Day
    /\ TierOut = "warm"

----------------------------------------------------------------------------
(* Specification SpecGate: _should_run_track_by_airtime_gate on a grid of   *)
(* instants around the due instants of air dates on day 1                   *)

\* offsets from UTC of the configured zone: UTC and Asia/Shanghai
GateZones == {0, 480}
\* day 1 at 01:00, 01:29, 01:30, 09:00, 09:29, 09:30 and 10:00 UTC
GateNow == {Day + 60, Day + 89, Day + 90, Day + 540, Day + 569, Day + 570, Day + 600}
GateHints == {NoNextEp, NextEp(1, 2, 1), NextEp(1, 2, BadVal), NextEp(1, 2, NoneVal)}
GateLearned == {NoneVal, 0, 540, 1439}
GateHistory == {NoneVal, 600}
GateLastTrack == {NoneVal, Day + 60, Day + 570, Day + 595}
GateFingerprints == {<<>>, <<1, 2, 1>>, <<1, 1, 0>>}

GateItem(m, lt, fp) ==
    [Entry("A:1", Day, FALSE) EXCEPT !.learned_hit_minutes = m, !.last_track_at = lt,
                                     !.last_track_next_episode = fp]

InitGate ==
    /\ SchedIdle
    /\ arg \in {[cfg |-> Config(en, tz, 0), now |-> n, next_ep |-> ne,
                 item |-> GateItem(m, lt, fp), tier |-> t, hist |-> h] :
                  en \in BOOLEAN, tz \in GateZones, n \in GateNow, ne \in GateHints,
                  m \in GateLearned, lt \in GateLastTrack, fp \in GateFingerprints,
                  t \in Tiers \cup {"none"}, h \in GateHistory}
    /\ res = Pending

\* the gate's answer, and under `resolved` the candidate item as a call of
\* _resolve_next_episode_due_at_utc on the same item leaves it
GateStep ==
    /\ res = Pending
    /\ res' = Result(_should_run_track_by_airtime_gate(arg.cfg, arg.now, arg.next_ep,
                                                       arg.item, arg.tier, arg.hist)
                       @@ [resolved |-> _resolve_next_episode_due_at_utc(
                                            arg.cfg, arg.next_ep, arg.item, arg.hist).item])
    /\ UNCHANGED <<arg, schedVars>>

NextGate == GateStep

SpecGate == InitGate /\ [][NextGate]_vars

Gated == res.done
GateOut == res.out

\* the case of C10: gating enabled, an air date, a calibrated entry
Calibrated ==
    /\ arg.cfg.enable_airtime_gate
    /\ arg.next_ep.air_date >= 0
    /\ arg.item.learned_hit_minutes \in 0..1439

\* midnight of the air date in the configured zone, as a UTC instant, plus
\* learned_hit_minutes plus the buffer
DueInstant ==
    (arg.next_ep.air_date * Day - arg.cfg.tz)
        + arg.item.learned_hit_minutes + arg.cfg.buffer

\* the stored attempt is for the hinted episode and not before the due instant
Serviced ==
    /\ arg.item.last_track_at >= DueInstant
    /\ arg.item.last_track_next_episode = NextKey(arg.next_ep)

\* C10: with gating enabled, an air date D and a calibrated
\* learned_hit_minutes m, should_run denies with next_due_utc = midnight of D
\* in the zone + m + buffer for every now before that instant, and allows at
\* or after it unless the window was already serviced.
C10_DueInstant ==
    (Gated /\ Calibrated) =>
        /\ GateOut.next = DueInstant
        /\ (arg.now < DueInstant) => ~GateOut.allow
        /\ (arg.now >= DueInstant /\ ~Serviced) => GateOut.allow

\* C10 witness: air date day 1, m = 540, buffer 30, zone UTC: due at 09:30;
\* the gate ran at 10:00 and allowed.
C10_Witness ==
    /\ Gated /\ Calibrated
    /\ arg.cfg.tz = 0 /\ arg.cfg.buffer = 30
    /\ arg.next_ep.air_date = 1
    /\ arg.item.learned_hit_minutes = 540
    /\ arg.now = Day + 600
    /\ GateOut.next = Day + 570
    /\ GateOut.allow

----------------------------------------------------------------------------
(* Specification Spec: the scheduler.  The five triggers run _process       *)
(* concurrently on one plugin instance; the persisted pool is one the        *)
(* plugin wrote in earlier runs.                                             *)

MaxFired == 2
MaxTicks == 1
TickMinutes == 60

\* 01:30 UTC of day 40
Now0 == 40 * Day + 90
AirDay == 40

\* stored last_seen_at of the initial pool: 1, 10 and 40 days before Now0
SchedSeen == {Now0 - Day, Now0 - 10 * Day, Now0 - 40 * Day}
SchedRetention == {30, 45}

\* the zone and the host clock are Asia/Shanghai, the default configuration
SchedCfg(ret) == [Config(TRUE, 480, 480) EXCEPT !.retention = ret]

cfg == arg.cfg

\* The plugin with pools and pins over the series of the library, `keys`,
\* after `n` triggers have fired
Installed(keys, n) ==
    /\ lock = FALSE
    /\ pc = [t \in Triggers |-> "idle"]
    /\ loc = [t \in Triggers |-> IdleLoc]
    /\ \E ps \in SUBSET keys :
          /\ pinStore = [s \in Servers |-> ps]
          /\ \E p \in {q \in PoolsOver(SchedSeen) : WellKeyed(q) /\ DOMAIN q \subseteq keys} :
                poolStore = [s \in Servers |-> _apply_pins_to_pool(p, ps)]
    /\ statsStore = NoStats
    /\ logs = 0
    /\ clock = Now0
    /\ fired = n
    /\ arg \in {[cfg |-> SchedCfg(r), keys |-> keys] : r \in SchedRetention}
    /\ res = Pending

\* a library of one series
Init == Installed({"A:1"}, 0)

Min(a, b) == IF a <= b THEN a ELSE b

\* _append_log on a store of n lines: one more line, at most _max_log_records
_append_log(n) == Min(n + 1, _max_log_records)

\* mutant: the lock is taken whether or not it is held
_lock_acquire_unchecked(held) == TRUE

\* _lock.acquire(blocking=False): succeeds when the lock is free
_lock_acquire(held) == ~held

Holding == {"acquired", "service", "items", "finally"}

SetLoc(t, l) == loc' = [loc EXCEPT ![t] = l]
Goto(t, p) == pc' = [pc EXCEPT ![t] = p]

\* _process, up to the lock: the trigger takes the free lock
TriggerAcquire(t) ==
    /\ pc[t] = "idle" /\ fired < MaxFired
    /\ cfg.enabled
    /\ _lock_acquire(lock)
    /\ lock' = TRUE
    /\ Goto(t, "acquired")
    /\ SetLoc(t, IdleLoc)
    /\ fired' = fired + 1
    /\ UNCHANGED <<poolStore, pinStore, statsStore, logs, clock, arg, res>>

\* _process, up to the lock: the lock is held by another run
TriggerBusy(t) ==
    /\ pc[t] = "idle" /\ fired < MaxFired
    /\ cfg.enabled
    /\ ~_lock_acquire(lock)
    /\ Goto(t, "busy")
    /\ SetLoc(t, [IdleLoc EXCEPT !.outcome = "busy"])
    /\ fired' = fired + 1
    /\ UNCHANGED <<lock, poolStore, pinStore, statsStore, logs, clock, arg, res>>

\* _append_log of the busy path: get_data("logs")
BusyRead(t) ==
    /\ pc[t] = "busy"
    /\ Goto(t, "busy_w")
    /\ SetLoc(t, [loc[t] EXCEPT !.snap = logs])
    /\ UNCHANGED <<lock, poolStore, pinStore, statsStore, logs, clock, fired, arg, res>>

\* mutant: the busy trigger goes on into the run body after logging
BusyWriteThenRun(t) ==
    /\ pc[t] = "busy_w"
    /\ logs' = _append_log(loc[t].snap)
    /\ Goto(t, "acquired")
    /\ UNCHANGED <<lock, loc, poolStore, pinStore, statsStore, clock, fired, arg, res>>

\* _append_log of the busy path: save_data("logs", ...), then return
BusyWrite(t) ==
    /\ pc[t] = "busy_w"
    /\ logs' = _append_log(loc[t].snap)
    /\ Goto(t, "idle")
    /\ SetLoc(t, [IdleLoc EXCEPT !.outcome = "busy"])
    /\ UNCHANGED <<lock, poolStore, pinStore, statsStore, clock, fired, arg, res>>

\* The start of the try block: the start line is logged and get_services
\* returns the configured servers
StartRun(t) ==
    /\ pc[t] = "acquired"
    /\ logs' = _append_log(logs)
    /\ Goto(t, "service")
    /\ SetLoc(t, [loc[t] EXCEPT !.servers = Servers])
    /\ UNCHANGED <<lock, poolStore, pinStore, statsStore, clock, fired, arg, res>>

\* get_services returns nothing: two log lines and the early return
StartNoServers(t) ==
    /\ pc[t] = "acquired"
    /\ logs' = _append_log(_append_log(logs))
    /\ Goto(t, "finally")
    /\ SetLoc(t, [loc[t] EXCEPT !.outcome = "no_servers"])
    /\ UNCHANGED <<lock, poolStore, pinStore, statsStore, clock, fired, arg, res>>

\* A collaborator (get_services, discovery, recognizer, missing-episode
\* calculator, search/download, persistence) raises inside the try block:
\* the working pool is dropped and control passes to the finally block
BodyRaises(t) ==
    /\ pc[t] \in {"acquired", "service", "items"}
    /\ Goto(t, "finally")
    /\ SetLoc(t, [loc[t] EXCEPT !.outcome = "raised", !.pool = EmptyPool, !.servers = {}])
    /\ UNCHANGED <<lock, poolStore, pinStore, statsStore, logs, clock, fired, arg, res>>

\* what one discovery pass observed: per key, the source that saw it
Sources == {"resume", "history", "recent_added"}
ObservedBy(obs, source) == {Observation(k, source) : k \in {j \in Keys : obs[j] = source}}

\* after the last server the run leaves the try block
AfterServer(t, rest) == IF rest = {} THEN "finally" ELSE "service"

\* _process_emby_service up to the loop: discovery, load, prune, the three
\* upserts, the pins, the tier filter and the merge; with nothing to process
\* the pool is saved at once
ProcessService(t, s) ==
    /\ pc[t] = "service" /\ s \in loc[t].servers
    /\ \E obs \in {o \in [Keys -> Sources \cup {"none"}] :
                      \A k \in Keys \ arg.keys : o[k] = "none"} :
        LET now == clock
            resume_series_items == ObservedBy(obs, "resume")
            loaded == poolStore[s]
            pruned == _prune_candidate_pool(loaded, pinStore[s], now, cfg.retention)
            upserted ==
                _upsert_candidate_pool_from_recent_added(
                    _upsert_candidate_pool_from_history(
                        _upsert_candidate_pool_from_resume(pruned, resume_series_items, now),
                        ObservedBy(obs, "history"), now),
                    ObservedBy(obs, "recent_added"), now)
            candidate_pool == _apply_pins_to_pool(upserted, pinStore[s])
            candidate_series_items ==
                _filter_series_by_tier(_candidate_pool_to_series_items(candidate_pool),
                                       TierOf(t), ModeOf(t), now)
            series_items == _merge_series_items(resume_series_items, candidate_series_items)
            rest == loc[t].servers \ {s}
            seen ==
                [loc[t] EXCEPT
                    !.servers = rest, !.cur = s,
                    !.resume = {ItemKey(i) : i \in resume_series_items},
                    !.filt = [k \in DOMAIN candidate_pool |->
                                [tier |-> _candidate_tier(
                                              _parse_last_played(candidate_pool[k].last_seen_at),
                                              now),
                                 pinned |-> candidate_pool[k].pinned]],
                    !.spared = {k \in DOMAIN loaded \cap pinStore[s] :
                                   k \notin DOMAIN _prune_candidate_pool(loaded, {}, now,
                                                                         cfg.retention)}]
        IN /\ logs' = _append_log(logs)
           /\ IF series_items = {}
              THEN /\ poolStore' = [poolStore EXCEPT ![s] = candidate_pool]
                   /\ Goto(t, AfterServer(t, rest))
                   /\ SetLoc(t, [seen EXCEPT !.outcome = "saved"])
              ELSE /\ poolStore' = poolStore
                   /\ Goto(t, "items")
                   /\ SetLoc(t, [seen EXCEPT !.pool = candidate_pool,
                                             !.todo = {ItemKey(i) : i \in series_items}])
    /\ UNCHANGED <<lock, pinStore, statsStore, clock, fired, arg, res>>

\* what the collaborators may report for a candidate
RunHints == {NoNextEp, NextEp(1, 2, AirDay)}
RunMissing == {NoMissing, Missing({1})}
RunHistory == {NoneVal}
RunReports ==
    {Recognized(i, FALSE, NoNextEp, NoMissing, NoneVal, FALSE, FALSE) :
        i \in {"no_seriesinfo", "no_mediainfo", "non_tv"}}
    \cup {Recognized("tv", e, ne, mi, h, hit, hit) :
            e \in BOOLEAN, ne \in RunHints, mi \in RunMissing, h \in RunHistory,
            hit \in BOOLEAN}

\* One pass of the loop of _process_emby_service; after the last item the
\* pool is saved
ProcessItem(t, k) ==
    /\ pc[t] = "items" /\ k \in loc[t].todo
    /\ \E m \in RunReports :
        LET out == _process_item(cfg, ModeOf(t), TierOf(t), clock, loc[t].pool, k, m)
            todo == loc[t].todo \ {k}
            next ==
                [loc[t] EXCEPT
                    !.pool = out.pool, !.todo = todo, !.done = @ \cup {k},
                    !.processed = @ + out.processed,
                    !.spared = IF out.spared THEN @ \cup {k} ELSE @,
                    !.tracked = IF out.attempt THEN @ \cup {k} ELSE @]
        IN IF todo = {}
           THEN /\ poolStore' = [poolStore EXCEPT ![loc[t].cur] = out.pool]
                /\ Goto(t, AfterServer(t, loc[t].servers))
                /\ SetLoc(t, [next EXCEPT !.outcome = "saved", !.pool = EmptyPool])
           ELSE /\ poolStore' = poolStore
                /\ Goto(t, "items")
                /\ SetLoc(t, next)
    /\ UNCHANGED <<lock, pinStore, statsStore, logs, clock, fired, arg, res>>

\* The finally block: last_stats is saved, the end line is logged, the lock
\* is released
FinallyRelease(t) ==
    /\ pc[t] = "finally"
    /\ statsStore' = [mode |-> ModeOf(t), processed_series |-> loc[t].processed]
    /\ logs' = _append_log(logs)
    /\ lock' = FALSE
    /\ Goto(t, "idle")
    /\ SetLoc(t, IdleLoc)
    /\ UNCHANGED <<poolStore, pinStore, clock, fired, arg, res>>

\* The finally block: save_data("last_stats", ...) raises; the statements
\* after it, _lock.release() among them, do not run
FinallyStatsRaises(t) ==
    /\ pc[t] = "finally"
    /\ Goto(t, "idle")
    /\ SetLoc(t, IdleLoc)
    /\ UNCHANGED <<lock, poolStore, pinStore, statsStore, logs, clock, fired, arg, res>>

\* The finally block: last_stats is saved and _append_log raises before
\* _lock.release()
FinallyLogRaises(t) ==
    /\ pc[t] = "finally"
    /\ statsStore' = [mode |-> ModeOf(t), processed_series |-> loc[t].processed]
    /\ Goto(t, "idle")
    /\ SetLoc(t, IdleLoc)
    /\ UNCHANGED <<lock, poolStore, pinStore, logs, clock, fired, arg, res>>

\* Time passes
Tick ==
    /\ clock < Now0 + MaxTicks * TickMinutes
    /\ clock' = clock + TickMinutes
    /\ UNCHANGED <<lock, pc, loc, poolStore, pinStore, statsStore, logs, fired, arg, res>>

Next ==
    \/ \E t \in Triggers : TriggerAcquire(t)
    \/ \E t \in Triggers : TriggerBusy(t)
    \/ \E t \in Triggers : BusyRead(t)
    \/ \E t \in Triggers : BusyWrite(t)
    \/ \E t \in Triggers : StartRun(t)
    \/ \E t \in Triggers : StartNoServers(t)
    \/ \E t \in Triggers : BodyRaises(t)
    \/ \E t \in Triggers : \E s \in Servers : ProcessService(t, s)
    \/ \E t \in Triggers : \E k \in Keys : ProcessItem(t, k)
    \/ \E t \in Triggers : FinallyRelease(t)
    \/ \E t \in Triggers : FinallyStatsRaises(t)
    \/ \E t \in Triggers : FinallyLogRaises(t)
    \/ Tick

Spec == Init /\ [][Next]_vars

\* Specification SpecRun: one trigger's run, with no other trigger firing
\* meanwhile, over a library of two series
InitRun == Installed(Keys, MaxFired - 1)

NextRun ==
    \/ \E t \in Triggers : TriggerAcquire(t)
    \/ \E t \in Triggers : StartRun(t)
    \/ \E t \in Triggers : StartNoServers(t)
    \/ \E t \in Triggers : BodyRaises(t)
    \/ \E t \in Triggers : \E s \in Servers : ProcessService(t, s)
    \/ \E t \in Triggers : \E k \in Keys : ProcessItem(t, k)
    \/ \E t \in Triggers : FinallyRelease(t)
    \/ \E t \in Triggers : FinallyStatsRaises(t)
    \/ \E t \in Triggers : FinallyLogRaises(t)

SpecRun == InitRun /\ [][NextRun]_vars

----------------------------------------------------------------------------
(* Properties of the scheduler *)

Running(t) == pc[t] \in Holding
Refused(t) == pc[t] \in {"busy", "busy_w"}

\* C1: at most one _process call is between its successful acquisition of
\* the lock and its release, in every interleaving of the five triggers.
C1_MutualExclusion ==
    \A t \in Triggers : \A u \in Triggers : Running(t) /\ Running(u) => t = u

\* a run is under way and another trigger has been refused meanwhile
C1_Witness ==
    \E t \in Triggers : \E u \in Triggers \ {t} :
        pc[t] = "items" /\ lock /\ Refused(u)

\* C2: the lock is held only while a run is between acquisition and release:
\* whenever no run is executing the lock is free, so that the next trigger
\* acquires it.
C2_GuardReleased ==
    lock => \E t \in Triggers : Running(t)

\* the step is taken by thread t
StepOf(t) == pc'[t] # pc[t]

\* a thread enters the run body only from idle, on a new trigger, by taking
\* the free lock
BodyEntered(t) ==
    (pc'[t] = "acquired" /\ StepOf(t)) =>
        pc[t] = "idle" /\ ~lock /\ lock' /\ fired' = fired + 1

\* the pool, the pins and the statistics are as before the step
StoresKept ==
    /\ poolStore' = poolStore
    /\ pinStore' = pinStore
    /\ statsStore' = statsStore
    /\ lock' = lock

\* C3 (as stated): a trigger that finds the lock held changes no persisted
\* state, the log store included, and never enters the run body.
C3_AsStated ==
    [][\A t \in Triggers :
          /\ BodyEntered(t)
          /\ (StepOf(t) /\ (pc'[t] = "busy" \/ Refused(t)))
                => StoresKept /\ logs' = logs /\ pc'[t] \in {"busy", "busy_w", "idle"}]_vars

\* C3 (amended): a trigger that finds the lock held changes neither the
\* pool, the pin registry, the statistics nor the lock; it appends one line
\* to the log store (on the store as it read it) and returns; the run body
\* is entered only by a new trigger that takes the free lock.
C3_BusyLogsOnly ==
    [][\A t \in Triggers :
          /\ BodyEntered(t)
          /\ (StepOf(t) /\ (pc'[t] = "busy" \/ Refused(t)))
                => /\ StoresKept
                   /\ pc'[t] \in {"busy", "busy_w", "idle"}
                   /\ logs' = IF pc[t] = "busy_w" THEN _append_log(loc[t].snap) ELSE logs]_vars

\* a refused trigger has returned, leaving its line in the log store, while
\* the run that held the lock is still under way
C3_Witness ==
    \E t \in Triggers : \E u \in Triggers \ {t} :
        /\ pc[t] = "idle" /\ loc[t].outcome = "busy"
        /\ Running(u) /\ logs >= 2

\* C6: no step of a run removes a pinned key from the persisted pool, and a
\* run's working pool holds every pinned key of the persisted pool.
C6_PinnedKept ==
    [][\A s \in Servers : \A k \in pinStore[s] :
          /\ k \in DOMAIN poolStore[s] => k \in DOMAIN poolStore'[s]
          /\ \A t \in Triggers :
                pc'[t] = "items" /\ loc'[t].cur = s /\ k \in DOMAIN poolStore[s]
                    => k \in DOMAIN loc'[t].pool]_vars

\* a run has saved a pool that still holds a pinned key which retention
\* pruning or the ended / non-TV removal would have dropped had it not been
\* pinned
C6_Witness ==
    \E t \in Triggers :
        /\ pc[t] = "finally" /\ loc[t].outcome = "saved"
        /\ \E k \in loc[t].spared : k \in pinStore[loc[t].cur] /\ k \in DOMAIN poolStore[loc[t].cur]

\* the keys a run processes: those its loop has taken and those it still holds
Scheduled(t) == loc[t].todo \cup loc[t].done
InLoop(t) == pc[t] = "items" \/ (pc[t] = "finally" /\ loc[t].outcome = "saved")

\* C8 (as stated): in a catch-up run of tier T every processed key is
\* pinned or of tier T at the time of filtering.
C8_AsStated ==
    \A t \in Tiers : InLoop(t) =>
        \A k \in Scheduled(t) : loc[t].filt[k].pinned \/ loc[t].filt[k].tier = t

\* C8 (amended): in a catch-up run of tier T every processed key is pinned,
\* or of tier T at the time of filtering, or was observed by the resume
\* source in this run; a key of the pool that is none of these is not
\* processed.
C8_TierOrResume ==
    \A t \in Tiers : InLoop(t) =>
        /\ \A k \in Scheduled(t) :
              loc[t].filt[k].pinned \/ loc[t].filt[k].tier = t \/ k \in loc[t].resume
        /\ \A k \in DOMAIN loc[t].filt :
              (loc[t].filt[k].pinned \/ loc[t].filt[k].tier = t \/ k \in loc[t].resume)
                  => k \in Scheduled(t)

\* a warm or cold run has processed a key of its tier and left out a
\* non-pinned key of another tier
C8_Witness ==
    \E t \in {"warm", "cold"} :
        /\ pc[t] = "finally" /\ loc[t].outcome = "saved"
        /\ \E k \in loc[t].done : ~loc[t].filt[k].pinned /\ loc[t].filt[k].tier = t
        /\ \E k \in DOMAIN loc[t].filt \ loc[t].done :
              ~loc[t].filt[k].pinned /\ loc[t].filt[k].tier # t

\* C9: a backfill run processes every entry of the pool, whatever its tier
\* and whether or not it is pinned: the loop holds every key of the pool, and
\* a loop that ends normally has taken them all.
C9_BackfillAll ==
    InLoop("backfill") =>
        /\ Scheduled("backfill") = DOMAIN loc["backfill"].filt
        /\ (pc["backfill"] = "finally" => loc["backfill"].done = DOMAIN loc["backfill"].filt)

\* a backfill run has processed a non-pinned cold entry and a pinned one
C9_Witness ==
    /\ pc["backfill"] = "finally" /\ loc["backfill"].outcome = "saved"
    /\ \E k \in loc["backfill"].done :
          ~loc["backfill"].filt[k].pinned /\ loc["backfill"].filt[k].tier = "cold"
    /\ \E k \in loc["backfill"].done : loc["backfill"].filt[k].pinned

----------------------------------------------------------------------------
(* Specification SpecGateTwice: two consecutive calls of                    *)
(* _should_run_track_by_airtime_gate on the same candidate_item dict, at    *)
(* the same instant, with the same download history                         *)

\* the second call reads the dict as the first call left it
GateAgain ==
    /\ res.done /\ DOMAIN res = {"done", "out"}
    /\ res' = [done |-> TRUE, out |-> res.out,
               again |-> _should_run_track_by_airtime_gate(arg.cfg, arg.now, arg.next_ep,
                                                           res.out.item, arg.tier, arg.hist)]
    /\ UNCHANGED <<arg, schedVars>>

NextGateTwice == GateStep \/ GateAgain

SpecGateTwice == InitGate /\ [][NextGateTwice]_vars

GatedTwice == res.done /\ "again" \in DOMAIN res

\* C14: two consecutive calls of should_run at the same now_utc, for the
\* same candidate, hint, tier and configuration, return the same allow and
\* the same next_due_utc.
C14_Deterministic ==
    GatedTwice =>
        /\ res.again.allow = res.out.allow
        /\ res.again.next = res.out.next

\* the first call took the calibration from the download history and wrote
\* it into the candidate; the second call read it from the candidate and
\* allowed as the first did
C14_Witness ==
    /\ GatedTwice
    /\ arg.cfg.enable_airtime_gate
    /\ arg.item.learned_hit_minutes = NoneVal
    /\ res.out.item.learned_hit_minutes = 600
    /\ res.out.allow /\ res.again.allow
    /\ res.out.reason = "due"

----------------------------------------------------------------------------
(* Specification SpecLearn: _update_learned_hit_minutes on a calibrated or  *)
(* uncalibrated entry at instants over one day                              *)

LearnNow == {2 * Day + 120 * h + m : h \in 0..11, m \in {0, 1}}
LearnStored == {NoneVal, 0, 540, 541, 1439}

InitLearn ==
    /\ SchedIdle
    /\ arg \in {[cfg |-> Config(TRUE, tz, 0), now |-> n,
                 item |-> GateItem(m, NoneVal, <<>>)] :
                  tz \in GateZones, n \in LearnNow, m \in LearnStored}
    /\ res = Pending

LearnStep ==
    /\ res = Pending
    /\ res' = Result(_update_learned_hit_minutes(arg.cfg, arg.item, arg.now))
    /\ UNCHANGED <<arg, schedVars>>

NextLearn == LearnStep

SpecLearn == InitLearn /\ [][NextLearn]_vars

Learned == res.done
\* the minute of day of the download in the configured zone
HitMinute == (arg.now + arg.cfg.tz) % Day

\* C15: after the update learned_hit_minutes is set and is <= its previous
\* value unless that was absent; a hit at a later (or the same) minute of
\* day than the stored one leaves the stored value unchanged.
C15_EarliestHit ==
    Learned =>
        LET old == arg.item.learned_hit_minutes
            new == res.out.learned_hit_minutes
        IN /\ new \in 0..1439
           /\ old = NoneVal \/ new <= old
           /\ old = NoneVal => new = HitMinute
           /\ (old # NoneVal /\ HitMinute >= old) => new = old
           /\ (old # NoneVal /\ HitMinute < old) => new = HitMinute

\* a stored 09:00 met a download at 10:00 (zone UTC) and stayed 09:00
C15_Witness ==
    /\ Learned
    /\ arg.cfg.tz = 0
    /\ arg.item.learned_hit_minutes = 540
    /\ HitMinute = 600
    /\ res.out.learned_hit_minutes = 540

----------------------------------------------------------------------------
(* Specification SpecLife: one series of the pool through a sequence of      *)
(* catch-up runs, each run taken whole (prune, upserts, pins, filter, merge, *)
(* the loop, save), with the clock advancing between runs.  The recognizer   *)
(* reports the same continuing series and the same next-episode hint in      *)
(* every run, and every run ends normally.                                   *)

MaxLifeSteps == 4

LifeKey == "A:1"
LifeHint == NextEp(1, 2, AirDay)
\* UTC offsets of the host's local clock: UTC, Asia/Shanghai, America/Bogota
LifeHosts == {0, 480, -300}
\* minutes by which the clock advances between runs
LifeAdvance == {10, 60}
LifeLearned == {NoneVal, 60}
LifeHistory == {NoneVal, 120}
\* triggers of catch-up runs
LifeTriggers == {"hot", "warm"}

\* midnight of the air date in the configured zone, as a UTC instant
LifeMidnight == AirDay * Day - cfg.tz

\* What is known of the attempts so far: the instant of the last one, and
\* of the latest run its tier, whether it evaluated the gate for the series,
\* whether it made an attempt, whether a calibration was at hand, whether
\* the attempt led to a download; serviced is TRUE once an attempt has been
\* made at or after a due instant computed from a calibration
NoAttempt ==
    [last |-> NoneVal, tier |-> "none", evaluated |-> FALSE, allowed |-> FALSE,
     calibrated |-> FALSE, downloaded |-> FALSE, serviced |-> FALSE]

InitLife ==
    /\ lock = FALSE
    /\ pc = [t \in Triggers |-> "idle"]
    /\ loc = [t \in Triggers |-> IdleLoc]
    /\ statsStore = NoStats
    /\ logs = 0
    /\ fired = 0
    /\ arg \in {[cfg |-> Config(en, tz, host), hist |-> h] :
                  en \in BOOLEAN, tz \in GateZones, host \in LifeHosts, h \in LifeHistory}
    /\ clock \in {LifeMidnight + 20, LifeMidnight + 80}
    /\ pinStore = [s \in Servers |-> {}]
    /\ \E m \in LifeLearned :
          poolStore = [s \in Servers |->
                (LifeKey :> [Entry(LifeKey, clock - Day, FALSE)
                                EXCEPT !.learned_hit_minutes = m])]
    /\ res = [done |-> FALSE, out |-> NoAttempt]

\* the series as one discovery source observed it, or not at all
LifeObserved(obs, source) == IF obs = source THEN {Observation(LifeKey, source)} ELSE {}

\* One run of _process_emby_service for trigger t
LifeRun(t, obs, hit) ==
    LET now == clock
        s == "emby"
        pruned == _prune_candidate_pool(poolStore[s], pinStore[s], now, cfg.retention)
        upserted ==
            _upsert_candidate_pool_from_recent_added(
                _upsert_candidate_pool_from_history(
                    _upsert_candidate_pool_from_resume(pruned, LifeObserved(obs, "resume"), now),
                    LifeObserved(obs, "history"), now),
                LifeObserved(obs, "recent_added"), now)
        candidate_pool == _apply_pins_to_pool(upserted, pinStore[s])
        series_items ==
            _merge_series_items(
                LifeObserved(obs, "resume"),
                _filter_series_by_tier(_candidate_pool_to_series_items(candidate_pool),
                                       TierOf(t), ModeOf(t), now))
        taken == LifeKey \in {ItemKey(i) : i \in series_items}
        m == Recognized("tv", FALSE, LifeHint, NoMissing, arg.hist, FALSE, hit)
        out == _process_item(cfg, ModeOf(t), TierOf(t), now, candidate_pool, LifeKey, m)
        due == _resolve_next_episode_due_at_utc(cfg, LifeHint,
                                                Existing(candidate_pool, LifeKey), arg.hist)
        attempt == taken /\ out.attempt
        calibrated == taken /\ due.note # "default_day_start"
    IN /\ fired < MaxLifeSteps
       /\ fired' = fired + 1
       /\ poolStore' = [poolStore EXCEPT ![s] = IF taken THEN out.pool ELSE candidate_pool]
       /\ res' = Result([last |-> IF attempt THEN now ELSE res.out.last,
                         tier |-> TierOf(t),
                         evaluated |-> taken,
                         allowed |-> attempt,
                         calibrated |-> calibrated,
                         downloaded |-> attempt /\ hit,
                         serviced |-> \/ res.out.serviced
                                      \/ /\ attempt /\ calibrated
                                         /\ cfg.enable_airtime_gate /\ now >= due.due])
       /\ UNCHANGED <<lock, pc, loc, pinStore, statsStore, logs, clock, arg>>

\* Time passes between two runs
LifeTick(d) ==
    /\ fired < MaxLifeSteps
    /\ fired' = fired + 1
    /\ clock' = clock + d
    /\ UNCHANGED <<lock, pc, loc, poolStore, pinStore, statsStore, logs, arg, res>>

NextLife ==
    \/ \E t \in LifeTriggers : \E obs \in Sources \cup {"none"} : \E hit \in BOOLEAN :
          LifeRun(t, obs, hit)
    \/ \E d \in LifeAdvance : LifeTick(d)

SpecLife == InitLife /\ [][NextLife]_vars

\* the step is a run, and the run evaluated the gate for the series
LifeEvaluated == fired' # fired /\ clock' = clock /\ res'.out.evaluated
\* the step is a run that made a track attempt
LifeAttempted == LifeEvaluated /\ res'.out.allowed

(* C11: with air-time gating disabled and the last attempt made at instant  *)
(* T, a run of tier t is denied the attempt while now < T + interval(t) and  *)
(* allowed it once now >= T + interval(t); with no attempt made so far it is *)
(* allowed.                                                                  *)
C11_IntervalFromAttempt ==
    [][(LifeEvaluated /\ ~cfg.enable_airtime_gate) =>
          (res'.out.allowed <=>
              \/ res.out.last = NoneVal
              \/ clock >= res.out.last + _tier_interval_minutes(cfg, res'.out.tier))]_vars

(* C12: once an attempt for the next-episode identity has been made at or   *)
(* after the due instant of that identity, no later run makes another        *)
(* attempt while the recognizer keeps reporting the same identity: at most   *)
(* one attempt per air window.                                               *)
C12_OneAttemptPerWindow ==
    [][res.out.serviced => ~LifeAttempted]_vars

(* C13: with gating enabled, an air date and no calibration, a run is       *)
(* denied the attempt before the start of the air-date day plus the buffer;  *)
(* afterwards it is allowed one only when at least the interval of the tier  *)
(* being run has passed since the last attempt, so two attempts are never    *)
(* closer together than that interval.                                       *)
C13_DayStartThenInterval ==
    [][(LifeEvaluated /\ cfg.enable_airtime_gate /\ ~res'.out.calibrated) =>
          /\ clock < LifeMidnight + cfg.buffer => ~res'.out.allowed
          /\ res'.out.allowed =>
                \/ res.out.last = NoneVal
                \/ clock >= res.out.last + _tier_interval_minutes(cfg, res'.out.tier)]_vars

(* C16: over the lifetime of a pool entry learned_hit_minutes is absent      *)
(* until a successful download is observed, and afterwards only changes to   *)
(* an earlier minute: no step increases it or makes it absent again while    *)
(* the entry exists.                                                         *)
LifeLearnedMinutes(pool) == pool["emby"][LifeKey].learned_hit_minutes

C16_CalibrationMonotone ==
    [][LET old == LifeLearnedMinutes(poolStore)
           new == LifeLearnedMinutes(poolStore')
       IN /\ old # NoneVal => (new # NoneVal /\ new <= old)
          /\ (old = NoneVal /\ new # NoneVal) =>
                (res'.out.downloaded \/ arg.hist # NoneVal)]_vars

----------------------------------------------------------------------------
(* Discovery mergers: _merge_resume_series, _merge_history_series and        *)
(* _merge_recent_added_series                                                *)

\* datetime.datetime.min, below every instant an event can name
DatetimeMin == -3

\* An Emby event as the mergers read it: SeriesId ("" when missing),
\* ParentIndexNumber (0 when missing or zero), IndexNumber,
\* UserData.LastPlayedDate (NoneVal when missing, BadVal a text that does
\* not parse, otherwise the UTC instant the text names) and
\* UserData.PlaybackPositionTicks (NoneVal when missing)
Event(series_id, season, episode, last_played, ticks) ==
    [SeriesId |-> series_id, ParentIndexNumber |-> season, IndexNumber |-> episode,
     LastPlayedDate |-> last_played, PlaybackPositionTicks |-> ticks]

_parse_playback_ticks(item) ==
    IF item.PlaybackPositionTicks >= 0 THEN item.PlaybackPositionTicks ELSE 0

\* f"{series_id}:{season}"
EventKey(item) == <<item.SeriesId, item.ParentIndexNumber>>
ObservationKey(o) == <<o.series_id, o.season>>

\* series_map, a dict in insertion order: the position of a key, 0 if absent
MapIndex(series_map, key) ==
    IF \E i \in 1..Len(series_map) : ObservationKey(series_map[i]) = key
    THEN CHOOSE i \in 1..Len(series_map) : ObservationKey(series_map[i]) = key
    ELSE 0

\* series_map[key] = record: a new key goes last, a known key keeps its place
MapPut(series_map, key, record) ==
    IF MapIndex(series_map, key) = 0 THEN Append(series_map, record)
    ELSE [series_map EXCEPT ![MapIndex(series_map, key)] = record]

\* if not series_id or not season
MissingSeriesOrSeason(item) == item.SeriesId = "" \/ item.ParentIndexNumber = 0

\* (now - last_played_dt).days > self._resume_days, when both are there
OutOfResumeDays(last_played_dt, now, resume_days) ==
    /\ resume_days # 0
    /\ last_played_dt # NoneVal
    /\ TimedeltaDays(now - last_played_dt) > resume_days

\* One pass of the loop of _merge_resume_series
MergeResumeItem(series_map, item, now, resume_days) ==
    LET key == EventKey(item)
        last_played_dt == _parse_last_played(item.LastPlayedDate)
        playback_ticks == _parse_playback_ticks(item)
        idx == MapIndex(series_map, key)
        current_last_played == IF last_played_dt # NoneVal THEN last_played_dt ELSE DatetimeMin
        should_replace ==
            \/ idx = 0
            \/ current_last_played > series_map[idx].last_played
            \/ /\ current_last_played = series_map[idx].last_played
               /\ playback_ticks > series_map[idx].playback_ticks
    IN IF MissingSeriesOrSeason(item) THEN series_map
       ELSE IF OutOfResumeDays(last_played_dt, now, resume_days) THEN series_map
       ELSE IF should_replace
            THEN MapPut(series_map, key,
                        [series_id |-> item.SeriesId, season |-> item.ParentIndexNumber,
                         episode |-> item.IndexNumber, last_played |-> current_last_played,
                         playback_ticks |-> playback_ticks])
            ELSE series_map

\* One pass of the loop of _merge_history_series
MergeHistoryItem(series_map, item, now, resume_days) ==
    LET key == EventKey(item)
        last_played_dt == _parse_last_played(item.LastPlayedDate)
        idx == MapIndex(series_map, key)
        current_dt == IF last_played_dt # NoneVal THEN last_played_dt ELSE DatetimeMin
    IN IF MissingSeriesOrSeason(item) THEN series_map
       ELSE IF OutOfResumeDays(last_played_dt, now, resume_days) THEN series_map
       ELSE IF idx = 0 \/ current_dt >= series_map[idx].last_played
            THEN MapPut(series_map, key,
                        [series_id |-> item.SeriesId, season |-> item.ParentIndexNumber,
                         episode |-> item.IndexNumber, last_played |-> current_dt,
                         playback_ticks |-> _parse_playback_ticks(item)])
            ELSE series_map

\* One pass of the loop of _merge_recent_added_series
MergeRecentAddedItem(series_map, item) ==
    IF MissingSeriesOrSeason(item) THEN series_map
    ELSE MapPut(series_map, EventKey(item),
                [series_id |-> item.SeriesId, season |-> item.ParentIndexNumber,
                 episode |-> item.IndexNumber, last_played |-> DatetimeMin,
                 playback_ticks |-> 0])

RECURSIVE MergeLoop(_, _, _, _, _)
\* for item in items, from an empty series_map; list(series_map.values())
MergeLoop(source, series_map, items, now, resume_days) ==
    IF items = <<>> THEN series_map
    ELSE MergeLoop(source,
                   CASE source = "resume" ->
                            MergeResumeItem(series_map, Head(items), now, resume_days)
                     [] source = "history" ->
                            MergeHistoryItem(series_map, Head(items), now, resume_days)
                     [] OTHER -> MergeRecentAddedItem(series_map, Head(items)),
                   Tail(items), now, resume_days)

_merge_resume_series(items, now, resume_days) ==
    MergeLoop("resume", <<>>, items, now, resume_days)

_merge_history_series(items, now, resume_days) ==
    MergeLoop("history", <<>>, items, now, resume_days)

_merge_recent_added_series(items) ==
    MergeLoop("recent_added", <<>>, items, 0, 0)

\* The merger of a discovery source; now is datetime.datetime.now(), the
\* wall clock of the host
MergeOf(source, items, now, resume_days) ==
    CASE source = "resume" -> _merge_resume_series(items, now, resume_days)
      [] source = "history" -> _merge_history_series(items, now, resume_days)
      [] OTHER -> _merge_recent_added_series(items)

----------------------------------------------------------------------------
(* Specification SpecMerge: a merger applied to a list of events, and then   *)
(* to the events that carry the observations it returned                     *)

MaxEvents == 3

\* the UTC instant of the merge
MergeNow == 100 * Day + 600
MergeWindows == {7, 30}
MergeHosts == {0, 480, -300}

\* Two events of series A season 1 played at the same instant, one without
\* a date, one with a date that does not parse, one played 8 days and 1 hour
\* ago, one 7 days and 22 hours ago, one of series B, one without SeriesId
\* and one of season 0
MergeEvents ==
    {Event("A", 1, 1, MergeNow - Day, 5),
     Event("A", 1, 2, MergeNow - Day, 9),
     Event("A", 1, 3, NoneVal, 0),
     Event("A", 1, 4, BadVal, 9),
     Event("A", 1, 5, MergeNow - 8 * Day - 60, 9),
     Event("A", 1, 6, MergeNow - 8 * Day + 120, NoneVal),
     Event("B", 1, 1, MergeNow - 2 * Day, 0),
     Event("", 1, 1, MergeNow - Day, 0),
     Event("A", 0, 1, MergeNow - Day, 9)}

EventLists == UNION {[1..n -> MergeEvents] : n \in 0..MaxEvents}

\* The event that carries an observation: its fields under the names the
\* mergers read, no date when the observation has none
EventOf(o) ==
    Event(o.series_id, o.season, o.episode,
          IF o.last_played = DatetimeMin THEN NoneVal ELSE o.last_played,
          o.playback_ticks)

EventsOf(observations) == [i \in 1..Len(observations) |-> EventOf(observations[i])]

InitMerge ==
    /\ SchedIdle
    /\ arg \in {[source |-> src, items |-> items, now |-> MergeNow, host |-> host,
                 resume_days |-> w] :
                  src \in Sources, items \in EventLists, host \in MergeHosts,
                  w \in MergeWindows}
    /\ res = Pending

MergeStep ==
    /\ res = Pending
    /\ res' = Result(MergeOf(arg.source, arg.items, arg.now + arg.host, arg.resume_days))
    /\ UNCHANGED <<arg, schedVars>>

MergeAgain ==
    /\ res.done /\ DOMAIN res = {"done", "out"}
    /\ res' = [done |-> TRUE, out |-> res.out,
               again |-> MergeOf(arg.source, EventsOf(res.out), arg.now + arg.host,
                                 arg.resume_days)]
    /\ UNCHANGED <<arg, schedVars>>

NextMerge == MergeStep \/ MergeAgain

SpecMerge == InitMerge /\ [][NextMerge]_vars

Merged == res.done
MergedTwice == res.done /\ "again" \in DOMAIN res

\* the lists with the events of items in another order
Reorderings(items) ==
    {[i \in 1..Len(items) |-> items[p[i]]] :
        p \in {q \in [1..Len(items) -> 1..Len(items)] :
                  \A i, j \in 1..Len(items) : q[i] = q[j] => i = j}}

\* what the claims say of an observation: its key, last_played, playback_ticks
Survivors(observations) ==
    {[key |-> ObservationKey(observations[i]),
      last_played |-> observations[i].last_played,
      playback_ticks |-> observations[i].playback_ticks] : i \in 1..Len(observations)}

\* the observations the merger makes of the events of arg.items one by one
MergeCandidates ==
    UNION {Survivors(MergeOf(arg.source, <<arg.items[i]>>, arg.now + arg.host,
                             arg.resume_days)) : i \in 1..Len(arg.items)}

(* C17: for each discovery source the merger returns at most one observation *)
(* per (series_id, season); of the events of a key the one with the later    *)
(* last_played survives, of those with equal last_played (unknown counting   *)
(* as the minimum timestamp) the one with the larger playback_ticks, in      *)
(* whatever order the events stand in the list.                              *)
C17_LatestThenTicks ==
    Merged =>
        /\ \A i, j \in 1..Len(res.out) :
              ObservationKey(res.out[i]) = ObservationKey(res.out[j]) => i = j
        /\ Survivors(res.out) \subseteq MergeCandidates
        /\ \A o \in Survivors(res.out) : \A c \in MergeCandidates :
              c.key = o.key =>
                 \/ c.last_played < o.last_played
                 \/ c.last_played = o.last_played /\ c.playback_ticks <= o.playback_ticks
        /\ \A items \in Reorderings(arg.items) :
              Survivors(MergeOf(arg.source, items, arg.now + arg.host, arg.resume_days))
                 = Survivors(res.out)

(* C18: merging an already merged list returns it unchanged: the merger      *)
(* applied to the events of its own result returns that result.              *)
C18_MergeIdempotent == MergedTwice => res.again = res.out

C18_Witness ==
    /\ MergedTwice
    /\ Len(arg.items) = 3
    /\ Len(res.out) = 2
    /\ res.out[1].last_played = DatetimeMin
    /\ res.out[1].playback_ticks = 9
    /\ res.again = res.out

\* the event is of a series and season, has a last_played that parses, and
\* was played more than arg.resume_days whole days before the merge
OlderThanWindow(item) ==
    /\ _parse_last_played(item.LastPlayedDate) # NoneVal
    /\ TimedeltaDays(arg.now - _parse_last_played(item.LastPlayedDate)) > arg.resume_days

NotOlderThanWindow(item) == ~OlderThanWindow(item)

(* C19: with a recency window of W days the resume and history mergers drop  *)
(* every event whose last_played is known and older than W days (in whole    *)
(* days) and keep every event whose last_played is unknown: the result is    *)
(* the merge of the events that are not older than W days, so that a dropped *)
(* event never determines the observation of its key.                        *)
C19_RecencyWindow ==
    (Merged /\ arg.source \in {"resume", "history"}) =>
        res.out = MergeOf(arg.source, SelectSeq(arg.items, NotOlderThanWindow),
                          arg.now + arg.host, 0)

----------------------------------------------------------------------------
(* Specification SpecUpsert: the pool of one server through a sequence of    *)
(* upserts from the three discovery sources, the clock advancing in between  *)

MaxUpserts == 4

UpsertAdvance == {1, Day}

InitUpsert ==
    /\ lock = FALSE
    /\ pc = [t \in Triggers |-> "idle"]
    /\ loc = [t \in Triggers |-> IdleLoc]
    /\ pinStore = [s \in Servers |-> {}]
    /\ statsStore = NoStats
    /\ logs = 0
    /\ fired = 0
    /\ clock = Now0
    /\ arg = NoneVal
    /\ poolStore \in {[s \in Servers |-> EmptyPool],
                      [s \in Servers |-> ("A:1" :> Entry("A:1", Now0 - Day, TRUE))],
                      [s \in Servers |-> ("B:1" :> Entry("B:1", Now0 - 1, FALSE))]}
    /\ res = Pending

\* One call of _upsert_candidate_pool_from_<source> with the observations of
\* the keys ks; res keeps what was upserted
UpsertStep(source, ks) ==
    LET items == {Observation(k, source) : k \in ks}
        candidate_pool == poolStore["emby"]
    IN /\ fired < MaxUpserts
       /\ fired' = fired + 1
       /\ poolStore' = [poolStore EXCEPT !["emby"] =
             CASE source = "resume" ->
                      _upsert_candidate_pool_from_resume(candidate_pool, items, clock)
               [] source = "history" ->
                      _upsert_candidate_pool_from_history(candidate_pool, items, clock)
               [] OTHER ->
                      _upsert_candidate_pool_from_recent_added(candidate_pool, items, clock)]
       /\ res' = Result([source |-> source, keys |-> ks])
       /\ UNCHANGED <<lock, pc, loc, pinStore, statsStore, logs, clock, arg>>

UpsertTick(d) ==
    /\ fired < MaxUpserts
    /\ fired' = fired + 1
    /\ clock' = clock + d
    /\ res' = Pending
    /\ UNCHANGED <<lock, pc, loc, poolStore, pinStore, statsStore, logs, arg>>

NextUpsert ==
    \/ \E source \in Sources : \E ks \in SUBSET Keys : UpsertStep(source, ks)
    \/ \E d \in UpsertAdvance : UpsertTick(d)

SpecUpsert == InitUpsert /\ [][NextUpsert]_vars

\* the keys the step upserts
Upserted == IF clock' = clock /\ fired' # fired THEN res'.out.keys ELSE {}

(* C20: after every upsert, from any source, the entry stored under a key    *)
(* has the series_id and season of that key, and its last_seen_at is the     *)
(* time of the upsert; last_seen_at of an entry never moves backwards.       *)
C20_IdentityAndLastSeen ==
    /\ [](\A k \in DOMAIN poolStore["emby"] :
             /\ _candidate_key(poolStore["emby"][k].series_id, poolStore["emby"][k].season) = k
             /\ poolStore["emby"][k].series_id = KeySeries(k)
             /\ poolStore["emby"][k].season = KeySeason(k))
    /\ [][/\ \A k \in Upserted :
                /\ k \in DOMAIN poolStore'["emby"]
                /\ poolStore'["emby"][k].last_seen_at = clock
          /\ \A k \in DOMAIN poolStore["emby"] :
                /\ k \in DOMAIN poolStore'["emby"]
                /\ poolStore'["emby"][k].last_seen_at >= poolStore["emby"][k].last_seen_at]_vars

C20_Witness ==
    /\ res.done
    /\ res.out.source = "history"
    /\ res.out.keys = {"A:1"}
    /\ DOMAIN poolStore["emby"] = {"A:1", "B:1"}
    /\ poolStore["emby"]["A:1"].last_seen_at = Now0 + Day + 1
    /\ poolStore["emby"]["B:1"].last_seen_at = Now0 + 1

----------------------------------------------------------------------------
(* Specification SpecItem: the body of the loop of _process_emby_service     *)
(* applied to one candidate of a pool of one entry                           *)

ItemModes == {"accelerate", "backfill"}
ItemTiers == {"hot", "none"}
\* no attempt so far, one five minutes ago, one a day ago
ItemLastTrack == {NoneVal, Now0 - 5, Now0 - Day}
ItemMissing == {NoMissing, Missing({1}), Missing({2})}
ItemReports ==
    {Recognized(i, FALSE, NoNextEp, NoMissing, NoneVal, FALSE, FALSE) :
        i \in {"no_seriesinfo", "no_mediainfo", "non_tv"}}
    \cup {Recognized("tv", e, ne, mi, NoneVal, bh, th) :
            e \in BOOLEAN, ne \in RunHints, mi \in ItemMissing,
            bh \in BOOLEAN, th \in BOOLEAN}

InitItem ==
    /\ SchedIdle
    /\ arg \in {[cfg |-> Config(en, 0, 0), mode |-> mode, tier |-> tier, now |-> Now0,
                 pool |-> ("A:1" :> [Entry("A:1", Now0 - Day, pinned)
                                        EXCEPT !.last_track_at = lt]),
                 m |-> m] :
                  en \in BOOLEAN, mode \in ItemModes, tier \in ItemTiers,
                  pinned \in BOOLEAN, lt \in ItemLastTrack, m \in ItemReports}
    /\ res = Pending

ItemStep ==
    /\ res = Pending
    /\ res' = Result(_process_item(arg.cfg, arg.mode, arg.tier, arg.now, arg.pool,
                                   "A:1", arg.m))
    /\ UNCHANGED <<arg, schedVars>>

NextItem == ItemStep

SpecItem == InitItem /\ [][NextItem]_vars

ItemDone == res.done

\* the media results of one kind among those the candidate's pass recorded
ResultsOfKind(kind) ==
    {i \in 1..Len(res.out.results) : res.out.results[i].kind = kind}

(* C21 as stated: the search/download collaborator is invoked at most once   *)
(* per candidate per run, in catch-up mode as in backfill mode, and every    *)
(* outcome other than "downloaded" is recorded as no-match.                  *)
C21_AsStated ==
    ItemDone =>
        /\ res.out.calls <= 1
        /\ \A i \in 1..Len(res.out.results) :
              res.out.results[i].result \in {"downloaded", "no_match"}

(* C21 amended: per candidate and run there is at most one backfill search   *)
(* and at most one track attempt; a backfill run makes no track attempt, a   *)
(* catch-up run makes both for a continuing series with missing aired        *)
(* episodes that the gate lets through; each call is recorded with the       *)
(* result "downloaded" when it downloaded and "no_match" otherwise, and the  *)
(* result of the track attempt is the entry's last_track_result.             *)
C21_OncePerStep ==
    ItemDone =>
        /\ res.out.calls = Len(res.out.results)
        /\ Cardinality(ResultsOfKind("backfill")) <= 1
        /\ Cardinality(ResultsOfKind("track")) <= 1
        /\ arg.mode = "backfill" => ResultsOfKind("track") = {}
        /\ res.out.attempt <=> ResultsOfKind("track") # {}
        /\ \A i \in ResultsOfKind("backfill") :
              res.out.results[i].result
                 = IF arg.m.backfill_hit THEN "downloaded" ELSE "no_match"
        /\ \A i \in ResultsOfKind("track") :
              /\ res.out.results[i].result
                    = IF arg.m.track_hit THEN "downloaded" ELSE "no_match"
              /\ res.out.pool["A:1"].last_track_result = res.out.results[i].result

C21_Witness ==
    /\ ItemDone
    /\ arg.mode = "accelerate"
    /\ res.out.calls = 2
    /\ res.out.results[1] = [kind |-> "backfill", result |-> "no_match"]
    /\ res.out.results[2] = [kind |-> "track", result |-> "no_match"]
    /\ res.out.pool["A:1"].last_track_result = "no_match"

----------------------------------------------------------------------------
(* Pool management: _manage_candidate_pool, called by init_plugin when the   *)
(* saved configuration asks for a clear, a removal or a pin edit             *)

ManageServers == {"emby", "jelly"}

\* A rule as _parse_candidate_remove_rules returns it: "series:season" has
\* the server "*", "server:series:season" names the server
ManageRule(server, key) == [server |-> server, key |-> key]

\* _match_candidate_remove_rule
_match_candidate_remove_rule(server_name, key, rules) ==
    \E rule \in rules :
        /\ rule.key = key
        /\ rule.server = "*" \/ rule.server = server_name

\* mutant: the pin-remove rules are applied before the pin-add rules
PinRulesAddLast(pins, all_servers, pin_add_rules, pin_remove_rules) ==
    [s \in DOMAIN pins |->
        (pins[s] \ {rule.key : rule \in {r \in pin_remove_rules :
                                            r.server = "*" \/ r.server = s}})
          \cup {rule.key : rule \in {r \in pin_add_rules :
                                        \/ r.server = s
                                        \/ r.server = "*" /\ s \in DOMAIN all_servers}}]

\* The two loops over the rules after the loop over the pools: every pin-add
\* rule adds its key to the pins of its server, or of every server that has
\* a stored pool; then every pin-remove rule discards its key from the pins
\* of its server, or of every server
PinRules(pins, all_servers, pin_add_rules, pin_remove_rules) ==
    [s \in DOMAIN pins |->
        (pins[s] \cup {rule.key : rule \in {r \in pin_add_rules :
                                               \/ r.server = s
                                               \/ r.server = "*" /\ s \in DOMAIN all_servers}})
          \ {rule.key : rule \in {r \in pin_remove_rules :
                                     r.server = "*" \/ r.server = s}}]

\* The pools, the pins and the number of removed entries after a batch
_manage_candidate_pool(all_servers, pins, clear_all, remove_rules, pin_add_rules, pin_remove_rules) ==
    LET removed(s) ==
            {k \in DOMAIN all_servers[s] : _match_candidate_remove_rule(s, k, remove_rules)}
        kept(s) == DOMAIN all_servers[s] \ removed(s)
        pools1 == [s \in DOMAIN all_servers |-> [k \in kept(s) |-> all_servers[s][k]]]
        pins1 == [s \in DOMAIN pins |->
                    IF s \in DOMAIN all_servers
                    THEN ((pins[s] \ removed(s))
                            \cup {k \in kept(s) :
                                     _match_candidate_remove_rule(s, k, pin_add_rules)})
                           \ {k \in kept(s) :
                                 _match_candidate_remove_rule(s, k, pin_remove_rules)}
                    ELSE pins[s]]
        count(S) == Cardinality(S)
        total == IF "emby" \in DOMAIN all_servers /\ "jelly" \in DOMAIN all_servers
                 THEN count(DOMAIN all_servers["emby"]) + count(DOMAIN all_servers["jelly"])
                 ELSE IF "emby" \in DOMAIN all_servers THEN count(DOMAIN all_servers["emby"])
                 ELSE IF "jelly" \in DOMAIN all_servers THEN count(DOMAIN all_servers["jelly"])
                 ELSE 0
        gone == IF "emby" \in DOMAIN all_servers /\ "jelly" \in DOMAIN all_servers
                THEN count(removed("emby")) + count(removed("jelly"))
                ELSE IF "emby" \in DOMAIN all_servers THEN count(removed("emby"))
                ELSE IF "jelly" \in DOMAIN all_servers THEN count(removed("jelly"))
                ELSE 0
    IN IF clear_all
       THEN [pools |-> [s \in {} |-> EmptyPool], pins |-> [s \in DOMAIN pins |-> {}],
             removed |-> total]
       ELSE [pools |-> pools1,
             pins |-> PinRules(pins1, all_servers, pin_add_rules, pin_remove_rules),
             removed |-> gone]

----------------------------------------------------------------------------
(* Specification SpecManage: init_plugin applies a management batch to the   *)
(* stored pools and pins of two servers, of which either may not have a      *)
(* stored pool yet; backfill runs follow, in which the configured servers    *)
(* report the series they observe                                            *)

MaxManageRuns == 1

ManageKey == "A:1"
ManageRules == {ManageRule(server, ManageKey) : server \in {"*"} \cup ManageServers}
ManageRemovals == {{}, {ManageRule("*", ManageKey)}, {ManageRule("emby", ManageKey)}}

\* the stored pool of a server: none, an empty one, or one with the entry
ManagePools(pinned) ==
    {<<FALSE, EmptyPool>>, <<TRUE, EmptyPool>>,
     <<TRUE, (ManageKey :> Entry(ManageKey, Now0 - Day, pinned))>>}

InitManage ==
    /\ lock = FALSE
    /\ pc = [t \in Triggers |-> "idle"]
    /\ loc = [t \in Triggers |-> IdleLoc]
    /\ statsStore = NoStats
    /\ logs = 0
    /\ clock = Now0
    /\ fired = 0
    /\ pinStore \in [ManageServers -> SUBSET {ManageKey}]
    /\ \E stored \in [ManageServers -> ManagePools(FALSE)] : \E known \in SUBSET ManageServers :
          /\ known = {s \in ManageServers : stored[s][1]}
          /\ poolStore = [s \in known |-> _apply_pins_to_pool(stored[s][2], pinStore[s])]
          /\ arg \in {[cfg |-> Config(TRUE, 0, 0), known |-> known, clear_all |-> c,
                       remove_rules |-> rm, pin_add_rules |-> pa, pin_remove_rules |-> pr] :
                        c \in BOOLEAN, rm \in ManageRemovals, pa \in SUBSET ManageRules,
                        pr \in SUBSET ManageRules}
    /\ res = Pending

\* init_plugin, lines 102-116: the batch, when the configuration asks for one
ManageStep ==
    LET asked == \/ arg.clear_all \/ arg.remove_rules # {}
                 \/ arg.pin_add_rules # {} \/ arg.pin_remove_rules # {}
        out == _manage_candidate_pool(poolStore, pinStore, arg.clear_all, arg.remove_rules,
                                      arg.pin_add_rules, arg.pin_remove_rules)
    IN /\ res = Pending
       /\ IF asked
          THEN /\ poolStore' = out.pools
               /\ pinStore' = out.pins
               /\ logs' = _append_log(logs)
               /\ res' = Result(out.removed)
          ELSE /\ res' = Result(0)
               /\ UNCHANGED <<poolStore, pinStore, logs>>
       /\ UNCHANGED <<lock, pc, loc, statsStore, clock, fired, arg>>

RECURSIVE ManageItems(_, _, _, _)
\* the loop of _process_emby_service in backfill mode over the items todo,
\* each recognized as a continuing series with nothing missing
ManageItems(c, now, candidate_pool, todo) ==
    IF todo = {} THEN candidate_pool
    ELSE LET k == CHOOSE j \in todo : TRUE
             m == Recognized("tv", FALSE, NoNextEp, NoMissing, NoneVal, FALSE, FALSE)
         IN ManageItems(c, now,
                        _process_item(c, "backfill", "none", now, candidate_pool, k, m).pool,
                        todo \ {k})

\* _process_emby_service for server s, which reports the keys ks as resumed
ManageService(c, s, ks, now, pools, pins) ==
    LET stored == IF s \in DOMAIN pools THEN pools[s] ELSE EmptyPool
        resume_series_items == {Observation(k, "resume") : k \in ks}
        pruned == _prune_candidate_pool(stored, pins[s], now, c.retention)
        upserted == _upsert_candidate_pool_from_resume(pruned, resume_series_items, now)
        candidate_pool == _apply_pins_to_pool(upserted, pins[s])
        series_items ==
            _merge_series_items(
                resume_series_items,
                _filter_series_by_tier(_candidate_pool_to_series_items(candidate_pool),
                                       "none", "backfill", now))
    IN ManageItems(c, now, candidate_pool, {ItemKey(i) : i \in series_items})

\* A backfill run over the configured servers svc
ManageRun(svc, ks) ==
    /\ res.done
    /\ fired < MaxManageRuns
    /\ fired' = fired + 1
    /\ poolStore' = [s \in DOMAIN poolStore \cup svc |->
                        IF s \in svc
                        THEN ManageService(cfg, s, ks, clock, poolStore, pinStore)
                        ELSE poolStore[s]]
    /\ logs' = _append_log(_append_log(logs))
    /\ statsStore' = [mode |-> "backfill",
                      processed_series |-> Cardinality(svc) * Cardinality(ks)]
    /\ UNCHANGED <<lock, pc, loc, pinStore, clock, arg, res>>

NextManage ==
    \/ ManageStep
    \/ \E svc \in SUBSET ManageServers \ {{}} : \E ks \in SUBSET {ManageKey} : ManageRun(svc, ks)

SpecManage == InitManage /\ [][NextManage]_vars

\* the batch has been applied
Managed == res.done

(* C22: a pin-add rule with a wildcard server pins the key in every server   *)
(* scope known at the time of the batch and in every server scope that       *)
(* first appears later, without a further management action.                 *)
C22_WildcardPinEverywhere ==
    (/\ Managed
     /\ ~arg.clear_all
     /\ ManageRule("*", ManageKey) \in arg.pin_add_rules
     /\ arg.pin_remove_rules = {}
     /\ arg.remove_rules = {})
        => \A s \in DOMAIN poolStore : ManageKey \in pinStore[s]

(* C23: when a pin-remove rule and a pin-add rule of one batch both match a  *)
(* key in a server scope, the key is not pinned in that scope after the      *)
(* batch, whatever the mix of wildcard and server-specific rules and         *)
(* whether or not the key is in the pool.                                    *)
C23_RemovalWins ==
    (Managed /\ ~arg.clear_all) =>
        \A s \in ManageServers :
            (/\ _match_candidate_remove_rule(s, ManageKey, arg.pin_add_rules)
             /\ _match_candidate_remove_rule(s, ManageKey, arg.pin_remove_rules))
                => ManageKey \notin pinStore[s]

C23_Witness ==
    /\ Managed
    /\ fired = 0
    /\ arg.known = {"emby"}
    /\ arg.pin_add_rules = {ManageRule("*", ManageKey), ManageRule("jelly", ManageKey)}
    /\ arg.pin_remove_rules = {ManageRule("jelly", ManageKey)}
    /\ arg.remove_rules = {}
    /\ ~arg.clear_all
    /\ pinStore = [s \in ManageServers |-> IF s = "emby" THEN {ManageKey} ELSE {}]

-----------------------------------------------------------------------------
(* Specification SpecPass: one whole pass of _process_emby_service over a    *)
(* stored pool of up to two entries.                                         *)

RECURSIVE ServiceItems(_, _, _, _, _, _, _)
\* the loop of _process_emby_service over the items todo; reports[k] is what
\* the collaborators report for the item of key k
ServiceItems(c, mode, tier, now, candidate_pool, todo, reports) ==
    IF todo = {} THEN candidate_pool
    ELSE LET k == CHOOSE j \in todo : TRUE
         IN ServiceItems(c, mode, tier, now,
                         _process_item(c, mode, tier, now, candidate_pool, k,
                                       reports[k]).pool,
                         todo \ {k}, reports)

\* _process_emby_service without a raised exception: the pool it saves
_process_emby_service(c, mode, tier, now, stored, pin_set, obs, reports) ==
    LET resume_series_items == ObservedBy(obs, "resume")
        pruned == _prune_candidate_pool(stored, pin_set, now, c.retention)
        upserted ==
            _upsert_candidate_pool_from_recent_added(
                _upsert_candidate_pool_from_history(
                    _upsert_candidate_pool_from_resume(pruned, resume_series_items, now),
                    ObservedBy(obs, "history"), now),
                ObservedBy(obs, "recent_added"), now)
        candidate_pool == _apply_pins_to_pool(upserted, pin_set)
        series_items ==
            _merge_series_items(
                resume_series_items,
                _filter_series_by_tier(_candidate_pool_to_series_items(candidate_pool),
                                       tier, mode, now))
    IN ServiceItems(c, mode, tier, now, candidate_pool,
                    {ItemKey(i) : i \in series_items}, reports)

PassKey == "A:1"
PassOther == "B:1"
\* the other entry is a continuing series with nothing missing
PassOtherReport == Recognized("tv", FALSE, NoNextEp, NoMissing, NoneVal, FALSE, FALSE)

\* the reports of ItemReports, and those with the next episode to air in
\* the season after the entry's
PassReports ==
    ItemReports
    \cup {Recognized("tv", e, NextEp(2, 1, AirDay), mi, NoneVal, bh, th) :
            e \in BOOLEAN, mi \in ItemMissing, bh \in BOOLEAN, th \in BOOLEAN}

\* the entry of PassKey: last seen, and last attempted, at `seen`
PassAttempted(seen) ==
    [Entry(PassKey, seen, FALSE) EXCEPT
        !.last_track_at = seen,
        !.last_track_next_episode = NextKey(NextEp(1, 2, AirDay))]

InitPass ==
    /\ SchedIdle
    /\ arg \in {[cfg |-> SchedCfg(ret), trigger |-> t, now |-> Now0,
                 pool |-> [k \in {PassKey} \cup other |->
                              IF k = PassKey THEN PassAttempted(seen)
                              ELSE Entry(PassOther, Now0 - Day, FALSE)],
                 pins |-> pins,
                 obs |-> [k \in Keys |-> IF k = PassKey THEN o ELSE "none"],
                 reports |-> [k \in Keys |-> IF k = PassKey THEN m ELSE PassOtherReport]] :
                  ret \in SchedRetention, t \in Triggers, seen \in SchedSeen,
                  other \in SUBSET {PassOther}, pins \in SUBSET {PassKey},
                  o \in Sources \cup {"none"}, m \in PassReports}
    /\ res = Pending

PassStep ==
    /\ res = Pending
    /\ res' = Result(_process_emby_service(arg.cfg, ModeOf(arg.trigger),
                                           TierOf(arg.trigger), arg.now, arg.pool,
                                           arg.pins, arg.obs, arg.reports))
    /\ UNCHANGED <<arg, schedVars>>

NextPass == PassStep

SpecPass == InitPass /\ [][NextPass]_vars

\* the entries the pass has destroyed
PassDestroyed == {k \in DOMAIN arg.pool : res.done /\ k \notin DOMAIN res.out}

\* older than the retention and not pinned
PassAgedOut(k) ==
    /\ k \notin arg.pins
    /\ arg.now - arg.pool[k].last_seen_at > arg.cfg.retention * Day

\* recognized as a series that has ended with no missing episode, not pinned
PassEndedComplete(k) ==
    /\ k \notin arg.pins
    /\ arg.reports[k].info = "tv"
    /\ ~arg.reports[k].no_exists.has
    /\ _resolve_season_state(arg.reports[k].next_ep, arg.reports[k].ended,
                             KeySeason(k), NoMissing)

\* recognized as something other than a TV series, not pinned
PassNotTv(k) ==
    /\ k \notin arg.pins
    /\ arg.reports[k].info = "non_tv"

-----------------------------------------------------------------------------
(* Failures inside a run, checked under SpecRun *)

\* the run of trigger t has left the try block after it began a server's pass
LeftBody(t) == pc[t] = "finally" /\ loc[t].cur # ""

(* C25: a collaborator call that fails for one candidate (the series detail  *)
(* fetch, the recognizer, the missing-episode calculation, a search/download *)
(* that raises) skips only that candidate: every other candidate is still    *)
(* processed and the run reaches its save step.                              *)
C25_FailureSkipsOne ==
    \A t \in Triggers :
        LeftBody(t) => loc[t].outcome = "saved" /\ loc[t].todo = {}

(* C26: once a run has ended, every track attempt it made (every call of the *)
(* search/download for a track) is in the persisted pool: the entry's        *)
(* last_track_at is the time of the attempt and its last_track_result is the *)
(* outcome, also when the run ended because a later candidate raised.        *)
C26_AttemptsPersisted ==
    \A t \in Triggers :
        LeftBody(t) =>
            \A k \in loc[t].tracked :
                /\ k \in DOMAIN poolStore[loc[t].cur]
                /\ poolStore[loc[t].cur][k].last_track_at = clock + cfg.host_offset
                /\ poolStore[loc[t].cur][k].last_track_result \in {"downloaded", "no_match"}

-----------------------------------------------------------------------------
(* Specification SpecRace: the timers' runs of SpecRun over a library of one *)
(* series, and init_plugin applying one management batch on the thread that  *)
(* saves the configuration. init_plugin calls stop_service, which does       *)
(* nothing, and _manage_candidate_pool, which does not take _lock.           *)

RaceKey == "A:1"

RaceBatches ==
    {[clear_all |-> c, remove_rules |-> rm, pin_add_rules |-> pa, pin_remove_rules |-> pr] :
        c \in BOOLEAN,
        rm \in SUBSET {ManageRule("*", RaceKey)},
        pa \in SUBSET {ManageRule("*", RaceKey)},
        pr \in SUBSET {ManageRule("*", RaceKey)}}
    \ {[clear_all |-> FALSE, remove_rules |-> {}, pin_add_rules |-> {},
        pin_remove_rules |-> {}]}

\* _load_candidate_pool: a server without a stored pool has the empty pool
StoredPools(pools) ==
    [s \in Servers |-> IF s \in DOMAIN pools THEN pools[s] ELSE EmptyPool]

InitRace == Installed({RaceKey}, MaxFired - 1)

\* the run of trigger t has loaded the pool and has not yet saved it
BetweenLoadAndSave(t) == pc[t] = "items"

\* init_plugin, lines 102-116, with a batch asked for: no lock is taken; res
\* keeps the number of removed entries and the runs under way at the time
ManageNow ==
    /\ res = Pending
    /\ \E b \in RaceBatches :
        LET out == _manage_candidate_pool(poolStore, pinStore, b.clear_all, b.remove_rules,
                                          b.pin_add_rules, b.pin_remove_rules)
        IN /\ poolStore' = StoredPools(out.pools)
           /\ pinStore' = [s \in Servers |-> out.pins[s]]
           /\ res' = Result([removed |-> out.removed,
                              during |-> {t \in Triggers : BetweenLoadAndSave(t)}])
    /\ logs' = _append_log(logs)
    /\ UNCHANGED <<lock, pc, loc, statsStore, clock, fired, arg>>

NextRace ==
    \/ \E t \in Triggers : TriggerAcquire(t)
    \/ \E t \in Triggers : StartRun(t)
    \/ \E t \in Triggers : StartNoServers(t)
    \/ \E t \in Triggers : BodyRaises(t)
    \/ \E t \in Triggers : \E s \in Servers : ProcessService(t, s)
    \/ \E t \in Triggers : \E k \in Keys : ProcessItem(t, k)
    \/ \E t \in Triggers : FinallyRelease(t)
    \/ \E t \in Triggers : FinallyStatsRaises(t)
    \/ \E t \in Triggers : FinallyLogRaises(t)
    \/ ManageNow

SpecRace == InitRace /\ [][NextRace]_vars

(* C27: pool management is mutually exclusive with every scheduling run: no  *)
(* management batch reads or writes the persisted pool or the pin registry   *)
(* while a run is between its pool load and its pool save.                   *)
C27_ManagementExclusive ==
    [][res' # res => \A t \in Triggers : ~BetweenLoadAndSave(t)]_vars

-----------------------------------------------------------------------------
(* The entry an upsert writes, field by field. None and a missing key are    *)
(* "" for a text, NoneVal for a number or a time.                            *)

\* x or y, on texts and on numbers
OrText(x, y) == IF x # "" THEN x ELSE y
OrNumber(x, y) == IF x # NoneVal /\ x # 0 THEN x ELSE y

UnknownUser == "unknown_user"
RecentUser == "recent_added_user"

\* _normalize_user_label
_normalize_user_label(user_name) ==
    IF user_name = "" THEN UnknownUser
    ELSE IF user_name = "system" THEN RecentUser
    ELSE user_name

\* candidate_pool.get(key) or {} when the key is not in the pool
NoEntry ==
    [series_id |-> "", season |-> NoneVal, series_name |-> "", episode |-> NoneVal,
     user |-> "", last_played |-> NoneVal, playback_ticks |-> NoneVal,
     last_seen_at |-> NoneVal, last_track_at |-> NoneVal,
     last_track_next_episode |-> <<>>, pinned |-> FALSE,
     last_track_result |-> "", learned_hit_minutes |-> NoneVal,
     next_track_at |-> NoneVal, year |-> "", type |-> ""]

\* the keys the dict literal of an upsert does not name
Unnamed(entry) ==
    [entry EXCEPT !.last_track_result = "", !.learned_hit_minutes = NoneVal,
                  !.next_track_at = NoneVal, !.year = "", !.type = ""]

\* mutant: the stored name is kept when there is one
UpsertNameKeep(item, existing) == OrText(existing.series_name, item.series_name)

\* "series_name": item.get("series_name") or existing.get("series_name")
UpsertName(item, existing) == OrText(item.series_name, existing.series_name)

\* "last_played" of the three upserts: the stored text when there is one,
\* else the isoformat of the item's datetime or of datetime.min
UpsertLastPlayed(item, existing) ==
    IF existing.last_played # NoneVal THEN existing.last_played
    ELSE IF item.last_played # NoneVal THEN item.last_played
    ELSE DatetimeMin

\* int(x or y or 0)
IntOr(x, y) == IF OrNumber(x, y) = NoneVal THEN 0 ELSE OrNumber(x, y)

\* the dict _upsert_candidate_pool_from_resume stores
ResumeEntry(existing, item, now) ==
    [Unnamed(existing) EXCEPT
        !.series_id = item.series_id, !.season = item.season,
        !.series_name = UpsertName(item, existing),
        !.episode = OrNumber(item.episode, existing.episode),
        !.user = _normalize_user_label(OrText(item.user, existing.user)),
        !.last_played = UpsertLastPlayed(item, existing),
        !.playback_ticks = IntOr(item.playback_ticks, existing.playback_ticks),
        !.last_seen_at = now]

\* the dict _upsert_candidate_pool_from_history stores
HistoryEntry(existing, item, now) ==
    [Unnamed(existing) EXCEPT
        !.series_id = item.series_id, !.season = item.season,
        !.series_name = UpsertName(item, existing),
        !.episode = OrNumber(existing.episode, item.episode),
        !.user = _normalize_user_label(OrText(existing.user, item.user)),
        !.last_played = UpsertLastPlayed(item, existing),
        !.playback_ticks = IntOr(existing.playback_ticks, item.playback_ticks),
        !.last_seen_at = now]

\* the dict _upsert_candidate_pool_from_recent_added stores
RecentAddedEntry(existing, item, now) == HistoryEntry(existing, item, now)

SourceEntry(source, existing, item, now) ==
    CASE source = "resume" -> ResumeEntry(existing, item, now)
      [] source = "history" -> HistoryEntry(existing, item, now)
      [] OTHER -> RecentAddedEntry(existing, item, now)

-----------------------------------------------------------------------------
(* Specification SpecFields: the entry of one key through two upserts from   *)
(* any of the three sources; the entry is absent at first, or is one that a  *)
(* run has processed.                                                        *)

MaxFieldUpserts == 2

FieldNames == {"", "N1", "N2"}
FieldUsers == {"", "alice", "bob"}
\* episode, last_played, playback_ticks of an observation
FieldProgress ==
    {[episode |-> NoneVal, last_played |-> NoneVal, playback_ticks |-> 0],
     [episode |-> 1, last_played |-> Now0 - Day, playback_ticks |-> 5],
     [episode |-> 2, last_played |-> Now0 - 1, playback_ticks |-> 9]}

FieldItem(source, name, user, p) ==
    [series_id |-> "A", season |-> 1, series_name |-> name, user |-> user,
     episode |-> p.episode, last_played |-> p.last_played,
     playback_ticks |-> p.playback_ticks, source |-> source]

\* what _merge_resume_series, _merge_history_series and
\* _merge_recent_added_series can hand to the upserts
FieldItems ==
    {FieldItem(s, n, u, p) :
        s \in {"resume", "history"}, n \in FieldNames, u \in FieldUsers, p \in FieldProgress}
    \cup {FieldItem("recent_added", n, RecentUser,
                    [episode |-> e, last_played |-> DatetimeMin, playback_ticks |-> 0]) :
            n \in FieldNames, e \in {NoneVal, 1, 2}}

\* no observation yet
NoItem ==
    FieldItem("none", "", "", [episode |-> NoneVal, last_played |-> NoneVal,
                                playback_ticks |-> 0])

\* an entry a catch-up run has processed: display fields, attempt, calibration
FieldProcessed ==
    [NoEntry EXCEPT
        !.series_id = "A", !.season = 1, !.series_name = "N1", !.episode = 1,
        !.user = "alice", !.last_played = Now0 - 2 * Day, !.playback_ticks = 5,
        !.last_seen_at = Now0 - Day, !.last_track_at = Now0 - Day,
        !.last_track_next_episode = <<1, 2>>, !.last_track_result = "downloaded",
        !.learned_hit_minutes = 90, !.next_track_at = Now0 + Day,
        !.year = "2024", !.type = "tv"]

InitFields ==
    /\ SchedIdle
    /\ arg \in {[entry |-> e, item |-> NoItem, prev |-> NoItem, fresh |-> FALSE] :
                  e \in {NoEntry, FieldProcessed}}
    /\ res = Pending

\* the entry as stored now
FieldStored == IF res.done THEN res.out ELSE arg.entry

\* one upsert of the key from the item's source; arg keeps the entry before
\* it, the item before this one and whether that item created the entry
FieldUpsert(item) ==
    /\ fired < MaxFieldUpserts
    /\ fired' = fired + 1
    /\ arg' = [entry |-> FieldStored, item |-> item, prev |-> arg.item,
               fresh |-> (arg.entry = NoEntry)]
    /\ res' = Result(SourceEntry(item.source, FieldStored, item, Now0))
    /\ UNCHANGED <<lock, pc, loc, poolStore, pinStore, statsStore, logs, clock>>

NextFields == \E item \in FieldItems : FieldUpsert(item)

SpecFields == InitFields /\ [][NextFields]_vars

\* the last step was an upsert on an entry that existed
UpsertedExisting == res.done /\ arg.entry.last_seen_at # NoneVal

(* C28: an upsert on an existing entry leaves every field that the observing *)
(* source does not own unchanged: last_track_at, last_track_next_episode,    *)
(* last_track_result, learned_hit_minutes, next_track_at and the display     *)
(* metadata (year, media type label) are after the upsert what they were     *)
(* before it.                                                                *)
C28_FrameOfUpsert ==
    UpsertedExisting =>
        /\ res.out.last_track_at = arg.entry.last_track_at
        /\ res.out.last_track_next_episode = arg.entry.last_track_next_episode
        /\ res.out.last_track_result = arg.entry.last_track_result
        /\ res.out.learned_hit_minutes = arg.entry.learned_hit_minutes
        /\ res.out.next_track_at = arg.entry.next_track_at
        /\ res.out.year = arg.entry.year
        /\ res.out.type = arg.entry.type

(* C29 as stated: an upsert fills a metadata field of an existing entry only *)
(* when the field is empty: a non-empty series_name is unchanged after an    *)
(* upsert from any source whose observation carries a different name.        *)
C29_AsStated ==
    UpsertedExisting /\ arg.entry.series_name # "" =>
        res.out.series_name = arg.entry.series_name

(* C29 amended: an upsert keeps the series_name of an existing entry only    *)
(* when the observation carries no name: after an upsert from any source     *)
(* the series_name is the observation's name when that is not empty, and the *)
(* stored name otherwise.                                                    *)
C29_ObservedNameWins ==
    UpsertedExisting =>
        res.out.series_name = IF arg.item.series_name # "" THEN arg.item.series_name
                              ELSE arg.entry.series_name

C29_Witness ==
    /\ UpsertedExisting
    /\ arg.item.source = "history"
    /\ arg.entry.series_name = "N1"
    /\ arg.item.series_name = "N2"
    /\ res.out.series_name = "N2"

\* resume > history > recent_added
Authority(source) ==
    CASE source = "resume" -> 3
      [] source = "history" -> 2
      [] OTHER -> 1

\* the entry was created by one observation and is now observed by another
ObservedTwice == res.done /\ arg.fresh /\ arg.prev # NoItem

(* C30: the authority of the sources for user, episode, last_played and      *)
(* playback_ticks is resume > history > recent_added. An upsert from history *)
(* or recent_added changes none of these where resume data has set them, and *)
(* a value set by a source of lower authority is replaced when a source of   *)
(* higher authority observes the key with a value of its own.                *)
C30_SourceAuthority ==
    ObservedTwice =>
        /\ arg.prev.source = "resume" /\ arg.item.source # "resume" =>
              /\ res.out.user = arg.entry.user
              /\ arg.entry.episode # NoneVal => res.out.episode = arg.entry.episode
              /\ res.out.last_played = arg.entry.last_played
              /\ arg.entry.playback_ticks # 0 =>
                    res.out.playback_ticks = arg.entry.playback_ticks
        /\ Authority(arg.item.source) > Authority(arg.prev.source) =>
              /\ arg.item.user # "" => res.out.user = arg.item.user
              /\ arg.item.episode # NoneVal => res.out.episode = arg.item.episode
              /\ arg.item.last_played # NoneVal => res.out.last_played = arg.item.last_played
              /\ arg.item.playback_ticks # 0 =>
                    res.out.playback_ticks = arg.item.playback_ticks

-----------------------------------------------------------------------------
(* Removal against pin-add, checked under SpecManage *)

(* C31: when a removal rule and a pin-add rule of one batch both match a key *)
(* in a server scope, the removal takes precedence: after the batch the      *)
(* entry is not in that server's pool and the key is not in that server's    *)
(* pin set.                                                                  *)
C31_RemovalBeatsPinAdd ==
    (Managed /\ fired = 0 /\ ~arg.clear_all) =>
        \A s \in arg.known :
            (/\ _match_candidate_remove_rule(s, ManageKey, arg.remove_rules)
             /\ _match_candidate_remove_rule(s, ManageKey, arg.pin_add_rules))
                => /\ ManageKey \notin DOMAIN poolStore[s]
                   /\ ManageKey \notin pinStore[s]

-----------------------------------------------------------------------------
(* Removal for completion, checked under SpecPass *)

\* the entry of PassKey is within the retention when the pass begins
PassRetained ==
    /\ res.done
    /\ PassKey \in DOMAIN arg.pool
    /\ arg.now - arg.pool[PassKey].last_seen_at <= arg.cfg.retention * Day

\* the recognizer reports the series of PassKey as a TV series that has not
\* ended
PassContinuing ==
    /\ arg.reports[PassKey].info = "tv"
    /\ ~arg.reports[PassKey].ended

(* C32 as stated: an entry whose series the recognizer reports as continuing *)
(* is not removed by a run while it is within retention, whether or not a    *)
(* next-episode hint is present and whichever season the hint names.         *)
C32_AsStated ==
    PassRetained /\ PassContinuing => PassKey \in DOMAIN res.out

(* C32 amended: a run removes an entry of a continuing series that is within *)
(* retention only when the entry is not pinned, no episode of its season is  *)
(* missing and no next-episode hint names its season; with a missing episode *)
(* or a hint that names the entry's season the entry stays.                  *)
C32_SeasonComplete ==
    PassRetained /\ PassContinuing /\ PassKey \notin DOMAIN res.out =>
        /\ PassKey \notin arg.pins
        /\ ~arg.reports[PassKey].no_exists.has
        /\ _next_episode_season(arg.reports[PassKey].next_ep) # KeySeason(PassKey)

C32_Witness ==
    /\ PassRetained /\ PassContinuing
    /\ arg.pins = {}
    /\ arg.reports[PassKey].next_ep = NextEp(2, 1, AirDay)
    /\ ~arg.reports[PassKey].no_exists.has
    /\ PassKey \notin DOMAIN res.out

-----------------------------------------------------------------------------
(* Specification SpecStore: one pass of _process_emby_service over a stored  *)
(* pool that holds one well-formed entry and, under another key, a value     *)
(* that may be malformed.                                                    *)

\* a stored value that is not a dict (a text, a number, a list, null)
NotDict == [not_dict |-> TRUE]

\* a stored dict without series_id and season
Keyless(seen) ==
    [Entry(PassOther, seen, FALSE) EXCEPT !.series_id = "", !.season = NoneVal]

\* malformed values for the second key
StoreMalformed == {NotDict} \cup {Keyless(seen) : seen \in {NoneVal, Now0 - Day}}

\* _load_candidate_pool passes a value that is not a dict on; the loop of
\* _prune_candidate_pool calls item.get, or item["pinned"] = True for a
\* pinned key, and either raises on such a value. The pass then ends without
\* a save.
StorePass(c, mode, tier, now, stored, pin_set, obs, reports) ==
    IF \E k \in DOMAIN stored : stored[k] = NotDict
    THEN [raised |-> TRUE, pool |-> stored]
    ELSE [raised |-> FALSE,
          pool |-> _process_emby_service(c, mode, tier, now, stored, pin_set, obs, reports)]

StoreTriggers == {"hot", "backfill"}
StoreReports ==
    {Recognized("tv", FALSE, NextEp(1, 2, AirDay), mi, NoneVal, FALSE, th) :
        mi \in {NoMissing, Missing({1})}, th \in BOOLEAN}

InitStore ==
    /\ SchedIdle
    /\ arg \in {[cfg |-> SchedCfg(ret), trigger |-> t, now |-> Now0,
                 pool |-> [k \in {PassKey, PassOther} |->
                              IF k = PassKey THEN Entry(PassKey, seen, FALSE) ELSE v],
                 pins |-> pins,
                 obs |-> [k \in Keys |-> IF k = PassKey THEN o ELSE "none"],
                 reports |-> [k \in Keys |-> IF k = PassKey THEN m ELSE PassOtherReport]] :
                  ret \in SchedRetention, t \in StoreTriggers,
                  seen \in {Now0 - Day, Now0 - 10 * Day},
                  v \in StoreMalformed \cup {Entry(PassOther, Now0 - Day, FALSE)},
                  pins \in SUBSET {PassOther}, o \in {"none", "resume"},
                  m \in StoreReports}
    /\ res = Pending

StoreStep ==
    /\ res = Pending
    /\ res' = Result(StorePass(arg.cfg, ModeOf(arg.trigger), TierOf(arg.trigger), arg.now,
                               arg.pool, arg.pins, arg.obs, arg.reports))
    /\ UNCHANGED <<arg, schedVars>>

NextStore == StoreStep

SpecStore == InitStore /\ [][NextStore]_vars

\* the pass over the same stored pool without the second key
StoreWellFormedOnly ==
    _process_emby_service(arg.cfg, ModeOf(arg.trigger), TierOf(arg.trigger), arg.now,
                          Without(arg.pool, PassOther), {}, arg.obs, arg.reports)

(* C33: for a persisted pool with an entry that is not a record, or that     *)
(* lacks series_id or season, load and prune complete without raising, the   *)
(* malformed entry is absent from the pool the run saves, and every          *)
(* well-formed entry of the pool is processed as usual.                      *)
C33_MalformedDropped ==
    res.done /\ arg.pool[PassOther] \in StoreMalformed =>
        /\ ~res.out.raised
        /\ PassOther \notin DOMAIN res.out.pool
        /\ res.out.pool = StoreWellFormedOnly

-----------------------------------------------------------------------------
(* The place of the prune in a pass, checked under SpecPass *)

\* a discovery source observes PassKey in this pass and the recognizer does
\* not know the series, so that the loop leaves the entry as it is
PassObservedOnly ==
    /\ res.done
    /\ arg.obs[PassKey] # "none"
    /\ arg.reports[PassKey].info = "no_mediainfo"

(* C34: the prune of a run is applied after the run's observations have been *)
(* upserted: an entry that a discovery source observes in this run is not    *)
(* removed by this run's prune and keeps its last_track_at and its           *)
(* last_track_next_episode.                                                  *)
C34_PruneAfterUpsert ==
    PassObservedOnly =>
        /\ PassKey \in DOMAIN res.out
        /\ res.out[PassKey].last_track_at = arg.pool[PassKey].last_track_at
        /\ res.out[PassKey].last_track_next_episode
              = arg.pool[PassKey].last_track_next_episode

-----------------------------------------------------------------------------
(* The fingerprint of an attempt, checked under Spec *)

\* the entry of key k as the run of trigger t leaves it in this step: in the
\* pool it saves with its last item, else in its working pool
EntryAfter(t, k) ==
    IF loc'[t].todo = {} THEN poolStore'[loc[t].cur][k] ELSE loc'[t].pool[k]

(* C35: in every persisted pool an entry with a last_track_at has a          *)
(* last_track_next_episode that is not empty, and after each allowed attempt *)
(* both are set, last_track_at to the time of the attempt and the            *)
(* fingerprint to a next-episode identity, whether the attempt downloaded or *)
(* found nothing.                                                            *)
C35_AttemptedHasFingerprint ==
    /\ [](\A s \in Servers : \A k \in DOMAIN poolStore[s] :
             poolStore[s][k].last_track_at # NoneVal =>
                 poolStore[s][k].last_track_next_episode # <<>>)
    /\ [][\A t \in Triggers : \A k \in loc'[t].tracked \ loc[t].tracked :
             /\ EntryAfter(t, k).last_track_at = clock + cfg.host_offset
             /\ EntryAfter(t, k).last_track_next_episode \in {NextKey(h) : h \in RunHints}
             /\ EntryAfter(t, k).last_track_result \in {"downloaded", "no_match"}]_vars

C35_Witness ==
    /\ "A:1" \in DOMAIN poolStore["emby"]
    /\ poolStore["emby"]["A:1"].last_track_at = clock + cfg.host_offset
    /\ poolStore["emby"]["A:1"].last_track_next_episode = NextKey(NoNextEp)
    /\ poolStore["emby"]["A:1"].last_track_result = "no_match"

-----------------------------------------------------------------------------
(* The stored attempt time read back, checked under SpecLife *)

(* C36: the instant the gate derives from a stored last_track_at is the      *)
(* instant at which the attempt wrote it, for every offset between the       *)
(* host's local clock and UTC.                                               *)
C36_AttemptInstantReadBack ==
    \A k \in DOMAIN poolStore["emby"] :
        (res.out.last # NoneVal /\ poolStore["emby"][k].last_track_at # NoneVal) =>
            _parse_track_time_utc(poolStore["emby"][k].last_track_at) = res.out.last

-----------------------------------------------------------------------------
(* What the gate and the due instant write, checked under SpecGate *)

\* the entry has no calibration of its own and the download history has one
GateLearnsFromHistory ==
    /\ arg.next_ep.air_date >= 0
    /\ arg.item.learned_hit_minutes \notin 0..1439
    /\ arg.hist # NoneVal

(* C37 as stated: evaluating the gate or the due instant does not modify the *)
(* candidate entry: learned_hit_minutes, last_track_at and                   *)
(* last_track_next_episode are after the call what they were before it, for  *)
(* every gate outcome.                                                       *)
C37_AsStated ==
    Gated =>
        \A after \in {GateOut.item, GateOut.resolved} :
            /\ after.learned_hit_minutes = arg.item.learned_hit_minutes
            /\ after.last_track_at = arg.item.last_track_at
            /\ after.last_track_next_episode = arg.item.last_track_next_episode

(* C37 amended: evaluating the gate or the due instant leaves last_track_at  *)
(* and last_track_next_episode as they were, and leaves learned_hit_minutes  *)
(* as it was except in one case: when the next episode has an air date, the  *)
(* entry has no calibration and the download history yields one, the due     *)
(* instant stores that calibration in the entry, and so does the gate when   *)
(* air-time gating is enabled.                                               *)
C37_GateFrame ==
    Gated =>
        /\ \A after \in {GateOut.item, GateOut.resolved} :
              /\ after.last_track_at = arg.item.last_track_at
              /\ after.last_track_next_episode = arg.item.last_track_next_episode
        /\ GateOut.resolved.learned_hit_minutes
              = IF GateLearnsFromHistory THEN arg.hist ELSE arg.item.learned_hit_minutes
        /\ GateOut.item.learned_hit_minutes
              = IF GateLearnsFromHistory /\ arg.cfg.enable_airtime_gate THEN arg.hist
                ELSE arg.item.learned_hit_minutes

C37_Witness ==
    /\ Gated
    /\ arg.cfg.enable_airtime_gate
    /\ arg.item.learned_hit_minutes = NoneVal
    /\ arg.hist = 600
    /\ GateOut.allow
    /\ GateOut.item.learned_hit_minutes = 600
    /\ GateOut.resolved.learned_hit_minutes = 600

(* C38: after a management batch that removed an entry has completed, the    *)
(* entry does not reappear in the persisted pool unless a discovery source   *)
(* observes its key in a later run: no run that had loaded the pool before   *)
(* the removal brings the entry back with its save.                          *)
C38_RemovedStaysRemoved ==
    [][(/\ res.done /\ res.out.removed > 0
        /\ RaceKey \notin DOMAIN poolStore["emby"]
        /\ RaceKey \in DOMAIN poolStore'["emby"])
          => \A t \in res.out.during : ~BetweenLoadAndSave(t)]_vars

-----------------------------------------------------------------------------
(* The pinned flag, checked under SpecRun *)

(* C39: in every pool saved by a run that no management action interleaves   *)
(* with, the pinned flag of each entry is the membership of its key in the   *)
(* server's pin set, also for the entries that the run's upserts created or  *)
(* rewrote and that its loop processed.                                      *)
C39_PinnedIsRegistry ==
    \A s \in Servers : \A k \in DOMAIN poolStore[s] :
        poolStore[s][k].pinned <=> k \in pinStore[s]

\* a run has saved a pool with a pinned and an unpinned entry, both processed
C39_Witness ==
    \E t \in Triggers :
        /\ LeftBody(t) /\ loc[t].outcome = "saved"
        /\ loc[t].done = {"A:1", "B:1"}
        /\ pinStore["emby"] = {"A:1"}
        /\ DOMAIN poolStore["emby"] = {"A:1", "B:1"}
        /\ poolStore["emby"]["A:1"].pinned
        /\ ~poolStore["emby"]["B:1"].pinned
        /\ poolStore["emby"]["A:1"].last_seen_at = clock

-----------------------------------------------------------------------------
(* Specification SpecRetain: the pool of one server through an unbounded     *)
(* sequence of runs, each run taken whole, while the clock advances.  The    *)
(* entry of RetainKey is not pinned and no discovery source observes a       *)
(* series again; the recognizer reports the series as continuing, with the   *)
(* next episode to air in the entry's season.  The timers of get_service     *)
(* keep firing and time keeps passing: both are weakly fair.                 *)

\* days after Now0 at which the clock stops being followed
MaxRetainDays == 60

RetainKey == "A:1"
\* what the store holds as last_seen_at of the entry
RetainSeen == {NoneVal, BadVal, Now0 - Day, Now0 - 10*Day}
\* minutes by which the clock advances between runs
RetainAdvance == {5*Day, 10*Day}
RetainReports ==
    {Recognized("tv", FALSE, NextEp(1, 2, AirDay), mi, NoneVal, FALSE, th) :
        mi \in {NoMissing, Missing({2})}, th \in BOOLEAN}

InitRetain ==
    /\ lock = FALSE
    /\ pc = [t \in Triggers |-> "idle"]
    /\ loc = [t \in Triggers |-> IdleLoc]
    /\ statsStore = NoStats
    /\ logs = 0
    /\ fired = 0
    /\ clock = Now0
    /\ arg \in {[cfg |-> SchedCfg(ret), seen |-> seen] :
                  ret \in SchedRetention, seen \in RetainSeen}
    /\ pinStore = [s \in Servers |-> {}]
    /\ poolStore = [s \in Servers |-> (RetainKey :> Entry(RetainKey, arg.seen, FALSE))]
    /\ res = Pending

\* One run of _process_emby_service for trigger t: no source observes a
\* series, m is the report on the series of RetainKey; fired is the parity
\* of the number of runs so far
RetainRun(t, m) ==
    LET s == "emby"
        obs == [k \in Keys |-> "none"]
        reports == [k \in Keys |-> m]
    IN /\ poolStore' = [poolStore EXCEPT ![s] =
              _process_emby_service(cfg, ModeOf(t), TierOf(t), clock, poolStore[s],
                                    pinStore[s], obs, reports)]
       /\ fired' = 1 - fired
       /\ UNCHANGED <<lock, pc, loc, pinStore, statsStore, logs, clock, arg, res>>

\* Time passes between two runs
RetainTick(d) ==
    /\ clock + d <= Now0 + MaxRetainDays * Day
    /\ clock' = clock + d
    /\ UNCHANGED <<lock, pc, loc, poolStore, pinStore, statsStore, logs, fired, arg, res>>

RetainRuns == \E t \in Triggers : \E m \in RetainReports : RetainRun(t, m)
RetainTicks == \E d \in RetainAdvance : RetainTick(d)

NextRetain == RetainRuns \/ RetainTicks

\* a run has taken place: the steps of RetainRuns, which are always enabled
RetainRan == fired' = 1 - fired

SpecRetain ==
    /\ InitRetain /\ [][NextRetain]_vars
    /\ WF_vars(RetainTicks)
    /\ WF_fired(RetainRan)

(* C40: retention is eventually effective.  If runs keep occurring and the   *)
(* clock keeps advancing, a pool entry that is not pinned and that no        *)
(* discovery source observes again is eventually removed from the persisted  *)
(* pool, whatever its stored last_seen_at is, an absent or unparseable one   *)
(* included.                                                                 *)
C40_RetentionEffective ==
    <>(RetainKey \notin DOMAIN poolStore["emby"])

\* an entry with a readable last_seen_at is eventually removed
RetainDatedRemoved ==
    (arg.seen \notin {NoneVal, BadVal}) => <>(RetainKey \notin DOMAIN poolStore["emby"])

\* an entry without a readable last_seen_at stays in the pool for ever
RetainUndatedKept ==
    (arg.seen \in {NoneVal, BadVal}) => [](RetainKey \in DOMAIN poolStore["emby"])

====
